---- MODULE Spec2Model ----
(***************************************************************************)
(* Concert aggregation engine of concert-critic-app.                       *)
(*                                                                         *)
(* The model covers PostgresStorage.getConcerts, the two provider wrappers *)
(* (searchTicketmasterEvents / searchSetlistFmEvents), the transforms of   *)
(* the provider clients, PostgresStorage.getConcertsWithHistorical and the *)
(* two routes that write concerts (POST /api/concerts, POST /api/reviews). *)
(*                                                                         *)
(* Conventions                                                             *)
(*  - a string is a sequence of one-character strings, so toLowerCase and  *)
(*    includes are computed; the empty sequence is the empty string, which *)
(*    the code treats like undefined/null everywhere it tests a string     *)
(*    (`if (options.search)`, `concert.genre || null`, `genre?.`);         *)
(*  - an id is <<prefix, native>>: `tm_${event.id}` is <<"tm_", id>>, a    *)
(*    generated uuid is <<"", n>>; native ids are numbered;                *)
(*  - an optional number is Undefined (-1) when it is not given;           *)
(*  - an optional field of a result entry is <<>> when it is undefined and *)
(*    <<v>> when it holds v.                                               *)
(***************************************************************************)
EXTENDS Integers, Sequences, FiniteSets, TLC

VARIABLES
    concerts,          \* rows of table concerts, newest first (ORDER BY created_at DESC)
    reviews,           \* rows of table reviews, in insertion order
    now,               \* the wall clock read by new Date() / defaultNow()
    pc,                \* position of the getConcertsWithHistorical call
    options,           \* its argument
    dbConcerts,        \* its local: result of the store query
    combinedConcerts,  \* its local: merged list
    allConcertIds,     \* its local: seen-id set
    tmResponse,        \* HTTP outcome of the live provider for this call
    tmEvents,          \* its local: what searchTicketmasterEvents returned
    sfmResponse,       \* HTTP outcome of the historical provider for this call
    sfmEvents,         \* its local: what searchSetlistFmEvents returned
    filteredConcerts,  \* its local: merged list after the post-filter
    result,            \* the list the call returned
    reviewedAtStart,   \* history: ids of stored concerts with a review when the call began
    prev,              \* history: the previous call, when this call repeats it
    consumerKey,       \* TicketmasterService.consumerKey is set (TICKETMASTER_CONSUMER_KEY)
    apiKey,            \* SetlistFmService.apiKey is set (SETLIST_FM_API_KEY)
    tmCalls,           \* history: the tmOptions of each searchTicketmasterEvents call of this call
    sfmCalls,          \* history: the sfmOptions of each searchSetlistFmEvents call of this call
    tmRequests,        \* history: the HTTP requests searchEvents sent during this call
    sfmRequests,       \* history: the HTTP requests searchSetlists sent during this call
    tmThrew,           \* history: searchEvents raised an error to its caller
    sfmThrew,          \* history: searchSetlists raised an error to its caller
    users,             \* ids of the rows of table users
    reviewLikes,       \* rows of table review_likes
    reviewComments,    \* rows of table review_comments
    concertWishlists,  \* rows of table concert_wishlists
    userFollows,       \* rows of table user_follows
    reviewReqs,        \* the POST /api/reviews requests in progress, by connection
    likeOps,           \* the likeReview / unlikeReview calls in progress, by connection
    other,             \* a second getConcertsWithHistorical call in progress
    response           \* the last answer of a write route

vars == <<concerts, reviews, now, pc, options, dbConcerts, combinedConcerts,
          allConcertIds, tmResponse, tmEvents, sfmResponse, sfmEvents,
          filteredConcerts, result, reviewedAtStart, prev, consumerKey, apiKey,
          tmCalls, sfmCalls, tmRequests, sfmRequests, tmThrew, sfmThrew,
          users, reviewLikes, reviewComments, concertWishlists, userFollows,
          reviewReqs, likeOps, other, response>>

\* the tables the aggregation engine never reads
socialVars == <<users, reviewLikes, reviewComments, concertWishlists, userFollows>>

\* the requests in progress besides the first query
requestVars == <<reviewReqs, likeOps, other, response>>

queryVars == <<pc, options, dbConcerts, combinedConcerts, allConcertIds,
               tmResponse, tmEvents, sfmResponse, sfmEvents, filteredConcerts,
               result, reviewedAtStart, prev, tmCalls, sfmCalls, tmRequests,
               sfmRequests, tmThrew, sfmThrew>>

----------------------------------------------------------------------------
(* Bounds of the model *)

MaxConcerts == 2
MaxReviews == 1
\* likes one review's counter may reach before further likeReview calls
\* are left out
MaxLikes == 3
MaxClock == 1

(* Program constants *)

DefaultLimit == 20
DefaultPageWindow == 50
TmDefaultSize == 50

Undefined == -1

----------------------------------------------------------------------------
(* Strings *)

Lower(ch) ==
    CASE ch = "M" -> "m"
      [] ch = "D" -> "d"
      [] ch = "R" -> "r"
      [] ch = "P" -> "p"
      [] ch = "H" -> "h"
      [] ch = "O" -> "o"
      [] OTHER -> ch

toLowerCase(s) == [i \in 1..Len(s) |-> Lower(s[i])]

includes(s, t) ==
    \E i \in 0..(Len(s) - Len(t)) : SubSeq(s, i + 1, i + Len(t)) = t

\* ilike(column, `%${s}%`) for a term s without the wildcards % and _
ilike(column, s) == includes(toLowerCase(column), toLowerCase(s))

Min(a, b) == IF a < b THEN a ELSE b

\* Array.prototype.slice(start, end) for 0 <= start <= end
slice(arr, start, end) == SubSeq(arr, start + 1, Min(end, Len(arr)))

\* a || d for an optional number a
OrDefault(a, d) == IF a = Undefined \/ a = 0 THEN d ELSE a

\* String.prototype.split(sep) for a one-character separator
RECURSIVE split(_, _)
split(s, sep) ==
    IF \A i \in 1..Len(s) : s[i] # sep
    THEN <<s>>
    ELSE LET i == CHOOSE k \in 1..Len(s) :
                      s[k] = sep /\ \A j \in 1..(k - 1) : s[j] # sep
         IN <<SubSeq(s, 1, i - 1)>> \o split(SubSeq(s, i + 1, Len(s)), sep)

\* mutant: nothing is put in front of a short string
padStartNothing(s, targetLength, padString) == s

\* String.prototype.padStart(targetLength, padString) for a one-character pad
padStart(s, targetLength, padString) ==
    IF Len(s) >= targetLength
    THEN s
    ELSE [i \in 1..(targetLength - Len(s)) |-> padString] \o s

\* the text of `${x}` for an undefined x
UndefinedText == <<"u", "n", "d", "e", "f", "i", "n", "e", "d">>

----------------------------------------------------------------------------
(* Input domains *)

TBA == <<"T", "B", "A">>
Music == <<"M", "u", "s", "i", "c">>

Users == {"alice", "bob"}
NoUser == "anonymous"

\* bodies of POST /api/concerts (InsertConcert)
ConcertInputs ==
    { [artist |-> <<"D", "a", "y">>, venue |-> <<"P", "u", "b">>,
       city |-> <<"R", "o", "m">>, genre |-> <<>>,
       date |-> <<"2", "0", "2", "4", "-", "0", "3", "-", "0", "5">>,
       imageUrl |-> <<>>] }

\* images of a live event or of its attraction: url, ratio tag and pixel size
ImageA == [url |-> <<"a">>, ratio |-> "3_2", width |-> 2, height |-> 1]
ImageB == [url |-> <<"b">>, ratio |-> "16_9", width |-> 1, height |-> 1]
ImageC == [url |-> <<"c">>, ratio |-> "4_3", width |-> 2, height |-> 2]
ImageD == [url |-> <<"d">>, ratio |-> "3_2", width |-> 4, height |-> 1]
ImageE == [url |-> <<"e">>, ratio |-> "16_9", width |-> 3, height |-> 1]

\* events of the live provider (TicketmasterEvent)
TmEvent1 ==
    [id |-> 1, name |-> <<"M", "i", "d">>, venueName |-> <<"H", "a", "l">>,
     cityName |-> <<"R", "o", "m">>, stateCode |-> <<"R", "M">>,
     genreName |-> <<"R", "o", "c">>,
     localDate |-> <<"2", "0", "2", "4", "-", "0", "3", "-", "0", "5">>,
     images |-> <<ImageA, ImageB>>, attractionImages |-> <<>>]
TmEvent2 ==
    [id |-> 2, name |-> <<"D", "a", "y">>, venueName |-> <<>>,
     cityName |-> <<>>, stateCode |-> <<>>, genreName |-> <<>>,
     localDate |-> <<"2", "0", "2", "4", "-", "1", "2", "-", "1", "5">>,
     images |-> <<>>, attractionImages |-> <<ImageC>>]

\* setlists of the historical provider (SetlistFmSetlist)
Setlist1 ==
    [id |-> 1, artistName |-> <<"M", "i", "d">>, venueName |-> <<"P", "u", "b">>,
     cityName |-> <<"O", "s", "l">>, stateCode |-> <<>>,
     eventDate |-> <<"0", "5", "-", "0", "3", "-", "2", "0", "2", "4">>]
Setlist2 ==
    [id |-> 2, artistName |-> <<"D", "a", "y">>, venueName |-> <<"H", "a", "l">>,
     cityName |-> <<"R", "o", "m">>, stateCode |-> <<"R", "M">>,
     eventDate |-> <<"5", "-", "3", "-", "2", "0", "2", "4">>]

\* response bodies the providers may send (a repeated id included)
TmEventLists == { <<>>, <<TmEvent1>>, <<TmEvent1, TmEvent2, TmEvent1>> }
SetlistLists == { <<>>, <<Setlist2, Setlist1, Setlist2>> }

\* HTTP outcomes: status 0 stands for a network failure (fetch rejects)
FailureStatuses == {0, 404, 500}
TmOutcomes ==
    { [status |-> 200, events |-> e] : e \in TmEventLists }
    \cup { [status |-> st, events |-> <<>>] : st \in FailureStatuses }
SfmOutcomes ==
    { [status |-> 200, setlist |-> e] : e \in SetlistLists }
    \cup { [status |-> st, setlist |-> <<>>] : st \in FailureStatuses }

Searches == { <<>>, <<"m", "i">> }
Genres == { <<>>, <<"R", "o", "c">>, <<"m", "u">> }
Cities == { <<>>, <<"r", "o">> }
\* limit and offset as the route parses them (offset 0 is offset undefined
\* to every `offset || 0` and `offset = 0` of the code)
Limits == {Undefined, 0, 1}
Offsets == {Undefined, 1}

\* the filters a caller sets: none, one of them, or search and genre
Filters ==
    { f \in [search : Searches, genre : Genres, city : Cities] :
        f.city # <<>> => f.search = <<>> /\ f.genre = <<>> }

QueryOptions ==
    { [search |-> f.search, genre |-> f.genre, city |-> f.city, limit |-> l,
       offset |-> o, includeTicketmaster |-> tm, includeHistorical |-> sfm,
       startDate |-> <<>>, endDate |-> <<>>] :
      f \in Filters, l \in Limits, o \in Offsets, tm \in BOOLEAN, sfm \in BOOLEAN }

\* the five ratings of a user's review body (insertReviewSchema: each
\* within 1..5)
RatingsOf(userId) ==
    IF userId = "alice"
    THEN [overallRating |-> 5, performanceRating |-> 4, soundRating |-> 5,
          venueRating |-> 3, valueRating |-> 4]
    ELSE [overallRating |-> 2, performanceRating |-> 3, soundRating |-> 1,
          venueRating |-> 3, valueRating |-> 2]

----------------------------------------------------------------------------
(* Provider clients *)

\* mutant: without a 16_9 image the first image is taken, unsorted
getBestImageUnsorted(images) ==
    IF images = <<>>
    THEN <<>>
    ELSE LET ratio16x9 == SelectSeq(images, LAMBDA img : img.ratio = "16_9")
         IN IF ratio16x9 # <<>> THEN ratio16x9[1].url ELSE images[1].url

\* images.sort((a, b) => (b.width * b.height) - (a.width * a.height)): a
\* stable sort, larger area first
RECURSIVE sortBySize(_)
sortBySize(images) ==
    IF images = <<>>
    THEN <<>>
    ELSE LET img == images[Len(images)]
             sorted == sortBySize(SubSeq(images, 1, Len(images) - 1))
             before == SelectSeq(sorted, LAMBDA a :
                          a.width * a.height >= img.width * img.height)
             after == SelectSeq(sorted, LAMBDA a :
                          a.width * a.height < img.width * img.height)
         IN before \o <<img>> \o after

\* getBestImage of transformEvent; null is written <<>>
getBestImage(images) ==
    IF images = <<>>
    THEN <<>>
    ELSE LET ratio16x9 == SelectSeq(images, LAMBDA img : img.ratio = "16_9")
         IN IF ratio16x9 # <<>> THEN ratio16x9[1].url ELSE sortBySize(images)[1].url

\* getBestImage(event.images) || getBestImage(attraction?.images)
imageUrl(event) ==
    IF getBestImage(event.images) # <<>>
    THEN getBestImage(event.images)
    ELSE getBestImage(event.attractionImages)

\* mutant: the transform keeps the provider's native id as the id
transformEventNativeId(event) ==
    [id |-> <<"", event.id>>,
     artist |-> event.name,
     venue |-> IF event.venueName # <<>> THEN event.venueName ELSE TBA,
     city |-> IF event.venueName # <<>>
              THEN event.cityName \o <<",", " ">> \o event.stateCode
              ELSE TBA,
     genre |-> IF event.genreName # <<>> THEN event.genreName ELSE Music,
     date |-> event.localDate,
     imageUrl |-> imageUrl(event),
     ticketmasterId |-> <<event.id>>,
     isHistorical |-> FALSE]

\* TicketmasterService.transformEvent
transformEvent(event) ==
    [id |-> <<"tm_", event.id>>,
     artist |-> event.name,
     venue |-> IF event.venueName # <<>> THEN event.venueName ELSE TBA,
     city |-> IF event.venueName # <<>>
              THEN event.cityName \o <<",", " ">> \o event.stateCode
              ELSE TBA,
     genre |-> IF event.genreName # <<>> THEN event.genreName ELSE Music,
     date |-> event.localDate,
     imageUrl |-> imageUrl(event),
     ticketmasterId |-> <<event.id>>,
     isHistorical |-> FALSE]

\* SetlistFmService.convertDateFormat. `month.padStart` of an undefined month
\* throws and the catch returns the argument; an undefined year is written
\* out by the template literal
convertDateFormat(setlistDate) ==
    LET parts == split(setlistDate, "-")
        day == parts[1]
    IN IF Len(parts) < 2
       THEN setlistDate
       ELSE (IF Len(parts) < 3 THEN UndefinedText ELSE parts[3])
            \o <<"-">> \o padStart(parts[2], 2, "0")
            \o <<"-">> \o padStart(day, 2, "0")

\* SetlistFmService.transformSetlist
transformSetlist(setlist) ==
    [id |-> <<"setlistfm_", setlist.id>>,
     artist |-> setlist.artistName,
     venue |-> setlist.venueName,
     city |-> IF setlist.stateCode # <<>>
              THEN setlist.cityName \o <<",", " ">> \o setlist.stateCode
              ELSE setlist.cityName,
     genre |-> Music,
     date |-> convertDateFormat(setlist.eventDate),
     imageUrl |-> <<>>,
     ticketmasterId |-> <<>>,
     isHistorical |-> TRUE]

\* mutant: the request is sent whether or not a key is configured
searchEventsFetchAlways(key, opts) ==
    << [size |-> OrDefault(opts.size, TmDefaultSize),
        page |-> OrDefault(opts.page, 0),
        keyword |-> opts.keyword,
        city |-> opts.city,
        startDateTime |-> opts.startDateTime,
        endDateTime |-> opts.endDateTime,
        classificationName |->
            << <<"m", "u", "s", "i", "c">> >>
            \o (IF opts.classificationName # <<>>
                THEN <<opts.classificationName>> ELSE <<>>)] >>

\* TicketmasterService.searchEvents up to `await fetch(url)`: the requests it
\* sends, none without a key. classificationName is sent as 'music' and
\* once more with the caller's value
searchEventsFetch(key, opts) ==
    IF ~key
    THEN <<>>
    ELSE << [size |-> OrDefault(opts.size, TmDefaultSize),
             page |-> OrDefault(opts.page, 0),
             keyword |-> opts.keyword,
             city |-> opts.city,
             startDateTime |-> opts.startDateTime,
             endDateTime |-> opts.endDateTime,
             classificationName |->
                 << <<"m", "u", "s", "i", "c">> >>
                 \o (IF opts.classificationName # <<>>
                     THEN <<opts.classificationName>> ELSE <<>>)] >>

\* TicketmasterService.searchEvents from the response on: without a key the
\* empty list, and any response that is not ok is thrown
searchEvents(key, outcome) ==
    IF ~key
    THEN [threw |-> FALSE, value |-> <<>>]
    ELSE IF outcome.status \in 200..299
         THEN [threw |-> FALSE, value |-> outcome.events]
         ELSE [threw |-> TRUE, value |-> <<>>]

\* SetlistFmService.searchSetlists up to `await fetch(url, ...)`
searchSetlistsFetch(key, opts) ==
    IF ~key
    THEN <<>>
    ELSE << [p |-> IF opts.p = Undefined \/ opts.p = 0 THEN <<>> ELSE <<opts.p>>,
             artistName |-> opts.artistName,
             cityName |-> opts.cityName] >>

\* SetlistFmService.searchSetlists from the response on: without a key the
\* empty list; 404 is no result, every other failure is caught and answered
\* with the empty list
searchSetlists(key, outcome) ==
    IF ~key
    THEN [threw |-> FALSE, value |-> <<>>]
    ELSE IF outcome.status \in 200..299
         THEN [threw |-> FALSE, value |-> outcome.setlist]
         ELSE [threw |-> FALSE, value |-> <<>>]

\* mutant: the wrapper lets the provider's error escape
searchTicketmasterEventsRethrows(key, outcome) ==
    LET r == searchEvents(key, outcome)
    IN IF r.threw
       THEN [threw |-> TRUE, value |-> <<>>]
       ELSE [threw |-> FALSE,
             value |-> [i \in 1..Len(r.value) |-> transformEvent(r.value[i])]]

\* PostgresStorage.searchTicketmasterEvents: try { search, transform } catch { [] }
searchTicketmasterEvents(key, outcome) ==
    LET r == searchEvents(key, outcome)
    IN IF r.threw
       THEN [threw |-> FALSE, value |-> <<>>]
       ELSE [threw |-> FALSE,
             value |-> [i \in 1..Len(r.value) |-> transformEvent(r.value[i])]]

\* PostgresStorage.searchSetlistFmEvents: try { search, transform } catch { [] }
searchSetlistFmEvents(key, outcome) ==
    LET r == searchSetlists(key, outcome)
    IN IF r.threw
       THEN [threw |-> FALSE, value |-> <<>>]
       ELSE [threw |-> FALSE,
             value |-> [i \in 1..Len(r.value) |-> transformSetlist(r.value[i])]]

----------------------------------------------------------------------------
(* Persisted catalog store *)

RECURSIVE Gcd(_, _)
Gcd(a, b) == IF b = 0 THEN a ELSE Gcd(b, a % b)

RECURSIVE SumOf(_, _)
SumOf(rows, field) ==
    IF rows = <<>> THEN 0 ELSE Head(rows)[field] + SumOf(Tail(rows), field)

\* avg(column) over the joined review rows: NULL over no row, else the exact
\* quotient, kept as the reduced fraction <<numerator, denominator>>
avg(rows, field) ==
    IF rows = <<>>
    THEN <<>>
    ELSE LET total == SumOf(rows, field)
             g == Gcd(total, Len(rows))
         IN << <<total \div g, Len(rows) \div g>> >>

\* storage.getConcert(id)
getConcert(id) == SelectSeq(concerts, LAMBDA c : c.id = id)

\* the row mapping of getConcerts: `row.avgX ? Number(row.avgX) : undefined`
\* (a non-NULL avg arrives as a non-empty string, which is truthy)
ConcertWithRating(concert) ==
    LET joined == SelectSeq(reviews, LAMBDA r : r.concertId = concert.id)
    IN [id |-> concert.id,
        artist |-> concert.artist,
        venue |-> concert.venue,
        city |-> concert.city,
        genre |-> concert.genre,
        date |-> concert.date,
        imageUrl |-> concert.imageUrl,
        ticketmasterId |-> <<>>,
        isHistorical |-> FALSE,
        createdAt |-> concert.createdAt,
        updatedAt |-> concert.updatedAt,
        averageRating |-> avg(joined, "overallRating"),
        performanceRating |-> avg(joined, "performanceRating"),
        soundRating |-> avg(joined, "soundRating"),
        venueRating |-> avg(joined, "venueRating"),
        valueRating |-> avg(joined, "valueRating"),
        reviewCount |-> <<Len(joined)>>]

\* the WHERE clause of getConcerts
MatchesConditions(concert, opts) ==
    /\ opts.search # <<>> =>
          \/ ilike(concert.artist, opts.search)
          \/ ilike(concert.venue, opts.search)
          \/ ilike(concert.city, opts.search)
    /\ opts.genre # <<>> => concert.genre = opts.genre
    /\ opts.city # <<>> => ilike(concert.city, opts.city)

\* PostgresStorage.getConcerts
getConcerts(opts) ==
    LET limit == IF opts.limit = Undefined THEN DefaultLimit ELSE opts.limit
        offset == IF opts.offset = Undefined THEN 0 ELSE opts.offset
        rows == SelectSeq(concerts, LAMBDA c : MatchesConditions(c, opts))
        page == SubSeq(rows, offset + 1, Min(offset + limit, Len(rows)))
    IN [i \in 1..Len(page) |-> ConcertWithRating(page[i])]

----------------------------------------------------------------------------
(* Aggregation engine: PostgresStorage.getConcertsWithHistorical *)

\* mutant: the default of a provider record's average is 0, not undefined
WithZeroRatings(event, clock) ==
    [id |-> event.id,
     artist |-> event.artist,
     venue |-> event.venue,
     city |-> event.city,
     genre |-> event.genre,
     date |-> event.date,
     imageUrl |-> event.imageUrl,
     ticketmasterId |-> event.ticketmasterId,
     isHistorical |-> event.isHistorical,
     createdAt |-> <<"clock", clock>>,
     updatedAt |-> <<"clock", clock>>,
     averageRating |-> << <<0, 1>> >>,
     performanceRating |-> <<>>,
     soundRating |-> <<>>,
     venueRating |-> <<>>,
     valueRating |-> <<>>,
     reviewCount |-> <<0>>]

\* the map over tmEvents / sfmEvents: provider records get the call's clock
\* and default rating values
WithDefaultRatings(event, clock) ==
    [id |-> event.id,
     artist |-> event.artist,
     venue |-> event.venue,
     city |-> event.city,
     genre |-> event.genre,
     date |-> event.date,
     imageUrl |-> event.imageUrl,
     ticketmasterId |-> event.ticketmasterId,
     isHistorical |-> event.isHistorical,
     createdAt |-> <<"clock", clock>>,
     updatedAt |-> <<"clock", clock>>,
     averageRating |-> <<>>,
     performanceRating |-> <<>>,
     soundRating |-> <<>>,
     venueRating |-> <<>>,
     valueRating |-> <<>>,
     reviewCount |-> <<0>>]

\* mutant: the loop pushes without looking at the seen-id set
RECURSIVE AddAll(_, _, _)
AddAll(combined, ids, extra) ==
    IF extra = <<>>
    THEN [combinedConcerts |-> combined, allConcertIds |-> ids]
    ELSE AddAll(Append(combined, Head(extra)), ids \cup {Head(extra).id}, Tail(extra))

\* mutant: the loop puts a new record in front of the list
RECURSIVE AddUnseenInFront(_, _, _)
AddUnseenInFront(combined, ids, extra) ==
    IF extra = <<>>
    THEN [combinedConcerts |-> combined, allConcertIds |-> ids]
    ELSE LET c == Head(extra)
         IN IF c.id \in ids
            THEN AddUnseenInFront(combined, ids, Tail(extra))
            ELSE AddUnseenInFront(<<c>> \o combined, ids \cup {c.id}, Tail(extra))

\* the loop `if (!allConcertIds.has(c.id)) { push(c); add(c.id) }`
RECURSIVE AddUnseen(_, _, _)
AddUnseen(combined, ids, extra) ==
    IF extra = <<>>
    THEN [combinedConcerts |-> combined, allConcertIds |-> ids]
    ELSE LET c == Head(extra)
         IN IF c.id \in ids
            THEN AddUnseen(combined, ids, Tail(extra))
            ELSE AddUnseen(Append(combined, c), ids \cup {c.id}, Tail(extra))

\* the post-merge search filter
SearchFilter(list, opts) ==
    IF opts.search # <<>>
    THEN SelectSeq(list, LAMBDA c :
            \/ includes(toLowerCase(c.artist), toLowerCase(opts.search))
            \/ includes(toLowerCase(c.venue), toLowerCase(opts.search))
            \/ includes(toLowerCase(c.city), toLowerCase(opts.search)))
    ELSE list

\* mutant: the merged list is not filtered by genre again
GenreFilterOff(list, opts) == list

\* the post-merge genre filter (`concert.genre?.` drops a null genre)
GenreFilter(list, opts) ==
    IF opts.genre # <<>>
    THEN SelectSeq(list, LAMBDA c :
            c.genre # <<>> /\ includes(toLowerCase(c.genre), toLowerCase(opts.genre)))
    ELSE list

PostFilter(list, opts) == GenreFilter(SearchFilter(list, opts), opts)

\* mutant: the window starts at the head of the list
PaginateFromHead(list, opts) ==
    slice(list, 0, OrDefault(opts.limit, DefaultPageWindow))

\* the pagination of the merged list
Paginate(list, opts) ==
    LET startIndex == OrDefault(opts.offset, 0)
        endIndex == startIndex + OrDefault(opts.limit, DefaultPageWindow)
    IN slice(list, startIndex, endIndex)

\* `options = {}`
DefaultOptions ==
    [search |-> <<>>, genre |-> <<>>, city |-> <<>>, limit |-> Undefined,
     offset |-> Undefined, includeTicketmaster |-> FALSE,
     includeHistorical |-> FALSE, startDate |-> <<>>, endDate |-> <<>>]

Ids(list) == { list[i].id : i \in 1..Len(list) }

\* where the call goes after the store query (stage 1), the live fetch (2),
\* the historical fetch (3)
NextPc(opts, stage) ==
    IF stage < 2 /\ opts.includeTicketmaster THEN "awaitTicketmaster"
    ELSE IF stage < 3 /\ opts.includeHistorical THEN "awaitSetlistFm"
    ELSE "done"

\* 'T00:00:00Z' and 'T23:59:59Z'
StartOfDay == <<"T", "0", "0", ":", "0", "0", ":", "0", "0", "Z">>
EndOfDay == <<"T", "2", "3", ":", "5", "9", ":", "5", "9", "Z">>

\* the TicketmasterSearchOptions the call builds
tmOptions(opts) ==
    [size |-> OrDefault(opts.limit, DefaultLimit),
     page |-> OrDefault(opts.offset, 0) \div OrDefault(opts.limit, DefaultLimit),
     keyword |-> opts.search,
     city |-> opts.city,
     classificationName |-> opts.genre,
     startDateTime |-> IF opts.startDate # <<>>
                       THEN opts.startDate \o StartOfDay ELSE <<>>,
     endDateTime |-> IF opts.endDate # <<>>
                     THEN opts.endDate \o EndOfDay ELSE <<>>]

\* mutant: the historical provider is asked for the 0-indexed page
sfmOptionsZeroIndexed(opts) ==
    [p |-> OrDefault(opts.offset, 0) \div OrDefault(opts.limit, DefaultLimit),
     artistName |-> opts.search,
     cityName |-> opts.city]

\* the SetlistFmSearchOptions the call builds
sfmOptions(opts) ==
    [p |-> (OrDefault(opts.offset, 0) \div OrDefault(opts.limit, DefaultLimit)) + 1,
     artistName |-> opts.search,
     cityName |-> opts.city]

\* the synchronous code up to the next await, or up to the return; reaching
\* an await of a provider search calls the provider client, which sends its
\* request
Proceed(opts, stage, merged) ==
    /\ pc' = NextPc(opts, stage)
    /\ LET calls == IF stage = 1 THEN <<>> ELSE tmCalls
           requests == IF stage = 1 THEN <<>> ELSE tmRequests
       IN IF NextPc(opts, stage) = "awaitTicketmaster"
          THEN /\ tmCalls' = Append(calls, tmOptions(opts))
               /\ tmRequests' = requests \o searchEventsFetch(consumerKey, tmOptions(opts))
          ELSE /\ tmCalls' = calls
               /\ tmRequests' = requests
    /\ LET calls == IF stage = 1 THEN <<>> ELSE sfmCalls
           requests == IF stage = 1 THEN <<>> ELSE sfmRequests
       IN IF NextPc(opts, stage) = "awaitSetlistFm"
          THEN /\ sfmCalls' = Append(calls, sfmOptions(opts))
               /\ sfmRequests' = requests \o searchSetlistsFetch(apiKey, sfmOptions(opts))
          ELSE /\ sfmCalls' = calls
               /\ sfmRequests' = requests
    /\ combinedConcerts' = merged.combinedConcerts
    /\ allConcertIds' = merged.allConcertIds
    /\ IF NextPc(opts, stage) = "done"
       THEN /\ filteredConcerts' = PostFilter(merged.combinedConcerts, opts)
            /\ result' = Paginate(PostFilter(merged.combinedConcerts, opts), opts)
       ELSE /\ filteredConcerts' = <<>>
            /\ result' = <<>>

\* the catch block: fall back to database-only concerts
Fallback ==
    /\ pc' = "done"
    /\ result' = getConcerts(options)
    /\ UNCHANGED <<combinedConcerts, allConcertIds, filteredConcerts, tmCalls,
                   sfmCalls, tmRequests, sfmRequests>>

NoTmResponse == [status |-> Undefined, events |-> <<>>]
NoSfmResponse == [status |-> Undefined, setlist |-> <<>>]

Reviewed == { concerts[i].id : i \in { j \in 1..Len(concerts) :
                 \E k \in 1..Len(reviews) : reviews[k].concertId = concerts[j].id } }

\* the call up to its first await
Begin(opts) ==
    /\ options' = opts
    /\ dbConcerts' = getConcerts(opts)
    /\ reviewedAtStart' = Reviewed
    /\ tmResponse' = NoTmResponse
    /\ tmEvents' = <<>>
    /\ sfmResponse' = NoSfmResponse
    /\ sfmEvents' = <<>>
    /\ tmThrew' = FALSE
    /\ sfmThrew' = FALSE
    /\ Proceed(opts, 1, [combinedConcerts |-> getConcerts(opts),
                         allConcertIds |-> Ids(getConcerts(opts))])
    /\ UNCHANGED <<concerts, reviews, now, consumerKey, apiKey>>
    /\ UNCHANGED <<socialVars, requestVars>>

\* GET /api/concerts: a call of getConcertsWithHistorical
QueryStart(opts) ==
    /\ pc = "idle"
    /\ prev' = <<>>
    /\ Begin(opts)

\* the caller repeats the call it just finished, with identical inputs
QueryAgain ==
    /\ pc = "done"
    /\ prev' = << [options |-> options, dbConcerts |-> dbConcerts,
                   tmResponse |-> tmResponse, sfmResponse |-> sfmResponse,
                   result |-> result] >>
    /\ Begin(options)

\* `await this.searchTicketmasterEvents(tmOptions)` completes: the live
\* provider answers the request with at most `size` events, or no request
\* was sent and there is no response
TicketmasterReturns(outcome) ==
    /\ pc = "awaitTicketmaster"
    /\ (outcome = NoTmResponse) = (tmRequests = <<>>)
    /\ Len(outcome.events) <= OrDefault(options.limit, DefaultLimit)
    /\ tmResponse' = outcome
    /\ tmThrew' = searchEvents(consumerKey, outcome).threw
    /\ LET r == searchTicketmasterEvents(consumerKey, outcome)
           tmConcerts == [i \in 1..Len(r.value) |-> WithDefaultRatings(r.value[i], now)]
       IN IF r.threw
          THEN /\ Fallback
               /\ UNCHANGED tmEvents
          ELSE /\ tmEvents' = r.value
               /\ Proceed(options, 2,
                          AddUnseen(combinedConcerts, allConcertIds, tmConcerts))
    /\ UNCHANGED <<concerts, reviews, now, options, dbConcerts, sfmResponse,
                   sfmEvents, reviewedAtStart, prev, consumerKey, apiKey, sfmThrew>>
    /\ UNCHANGED <<socialVars, requestVars>>

\* `await this.searchSetlistFmEvents(sfmOptions)` completes: the historical
\* provider answers the request, or no request was sent
SetlistFmReturns(outcome) ==
    /\ pc = "awaitSetlistFm"
    /\ (outcome = NoSfmResponse) = (sfmRequests = <<>>)
    /\ sfmResponse' = outcome
    /\ sfmThrew' = searchSetlists(apiKey, outcome).threw
    /\ LET r == searchSetlistFmEvents(apiKey, outcome)
           sfmConcerts == [i \in 1..Len(r.value) |-> WithDefaultRatings(r.value[i], now)]
       IN IF r.threw
          THEN /\ Fallback
               /\ UNCHANGED sfmEvents
          ELSE /\ sfmEvents' = r.value
               /\ Proceed(options, 3,
                          AddUnseen(combinedConcerts, allConcertIds, sfmConcerts))
    /\ UNCHANGED <<concerts, reviews, now, options, dbConcerts, tmResponse,
                   tmEvents, reviewedAtStart, prev, consumerKey, apiKey, tmThrew>>
    /\ UNCHANGED <<socialVars, requestVars>>

\* mutant: the call stores the provider records it returned
ReturnPersisting ==
    /\ pc = "done"
    /\ pc' = "idle"
    /\ options' = DefaultOptions
    /\ dbConcerts' = <<>>
    /\ combinedConcerts' = <<>>
    /\ allConcertIds' = {}
    /\ tmResponse' = NoTmResponse
    /\ tmEvents' = <<>>
    /\ sfmResponse' = NoSfmResponse
    /\ sfmEvents' = <<>>
    /\ filteredConcerts' = <<>>
    /\ result' = <<>>
    /\ reviewedAtStart' = {}
    /\ prev' = <<>>
    /\ tmCalls' = <<>>
    /\ sfmCalls' = <<>>
    /\ tmRequests' = <<>>
    /\ sfmRequests' = <<>>
    /\ tmThrew' = FALSE
    /\ sfmThrew' = FALSE
    /\ concerts' =
          LET fetched == SelectSeq(result, LAMBDA c : c.id \notin Ids(concerts))
          IN [i \in 1..Len(fetched) |->
                 [id |-> fetched[i].id, artist |-> fetched[i].artist,
                  venue |-> fetched[i].venue, city |-> fetched[i].city,
                  genre |-> fetched[i].genre, date |-> fetched[i].date,
                  imageUrl |-> fetched[i].imageUrl,
                  createdAt |-> <<"row", Len(concerts) + 1>>,
                  updatedAt |-> <<"row", Len(concerts) + 1>>]] \o concerts
    /\ UNCHANGED <<reviews, now, consumerKey, apiKey>>
    /\ UNCHANGED <<socialVars, requestVars>>

\* the list is sent to the caller and the locals of the call are gone
Return ==
    /\ pc = "done"
    /\ pc' = "idle"
    /\ options' = DefaultOptions
    /\ dbConcerts' = <<>>
    /\ combinedConcerts' = <<>>
    /\ allConcertIds' = {}
    /\ tmResponse' = NoTmResponse
    /\ tmEvents' = <<>>
    /\ sfmResponse' = NoSfmResponse
    /\ sfmEvents' = <<>>
    /\ filteredConcerts' = <<>>
    /\ result' = <<>>
    /\ reviewedAtStart' = {}
    /\ prev' = <<>>
    /\ tmCalls' = <<>>
    /\ sfmCalls' = <<>>
    /\ tmRequests' = <<>>
    /\ sfmRequests' = <<>>
    /\ tmThrew' = FALSE
    /\ sfmThrew' = FALSE
    /\ UNCHANGED <<concerts, reviews, now, consumerKey, apiKey>>
    /\ UNCHANGED <<socialVars, requestVars>>

----------------------------------------------------------------------------
(* Writes to the store *)

\* a row of table concerts. created_at / updated_at default to now(); rows
\* are kept in created_at order, and the timestamp of a row is written as
\* <<"row", k>> for the k-th row inserted
ConcertRow(id, data) ==
    [id |-> id, artist |-> data.artist, venue |-> data.venue, city |-> data.city,
     genre |-> data.genre, date |-> data.date, imageUrl |-> data.imageUrl,
     createdAt |-> <<"row", Len(concerts) + 1>>,
     updatedAt |-> <<"row", Len(concerts) + 1>>]

\* POST /api/concerts -> storage.createConcert: the id is a generated uuid
CreateConcert(input) ==
    /\ pc = "idle"
    /\ Len(concerts) < MaxConcerts
    /\ concerts' = <<ConcertRow(<<"", Len(concerts) + 1>>, input)>> \o concerts
    /\ UNCHANGED <<reviews, now, consumerKey, apiKey>>
    /\ UNCHANGED <<queryVars, socialVars, requestVars>>

\* the concert objects a client can send along with a review: what the
\* provider searches showed it
ConcertPayloads ==
    {transformEvent(TmEvent1), transformSetlist(Setlist1)}

\* reviews.id defaults to gen_random_uuid(): an id no review row carries
FreshReviewId ==
    IF reviews = <<>>
    THEN 1
    ELSE 1 + (CHOOSE m \in { reviews[k].id : k \in 1..Len(reviews) } :
                 \A k \in 1..Len(reviews) : reviews[k].id <= m)

\* the concert upsert of POST /api/reviews
UpsertConcert(concert) ==
    IF concert # <<>> /\ getConcert(concert[1].id) = <<>>
    THEN <<ConcertRow(concert[1].id, concert[1])>> \o concerts
    ELSE concerts

\* POST /api/reviews. concert is <<>> or <<payload>>; valid tells whether the
\* review body passes insertReviewSchema. The insert of the review fails
\* (500) when its concert row is missing or the user already reviewed it.
SubmitReview(userId, concert, concertId, valid) ==
    /\ pc = "idle"
    /\ Len(reviews) < MaxReviews
    /\ Len(UpsertConcert(concert)) <= MaxConcerts
    /\ concert # <<>> => concertId = concert[1].id
    /\ IF userId = NoUser
       THEN UNCHANGED <<concerts, reviews>>
       ELSE /\ concerts' = UpsertConcert(concert)
            /\ IF /\ valid
                  /\ concertId \in Ids(UpsertConcert(concert))
                  /\ ~ \E k \in 1..Len(reviews) :
                         reviews[k].userId = userId /\ reviews[k].concertId = concertId
               THEN reviews' = Append(reviews,
                        [id |-> FreshReviewId, userId |-> userId,
                         concertId |-> concertId,
                         overallRating |-> RatingsOf(userId).overallRating,
                         performanceRating |-> RatingsOf(userId).performanceRating,
                         soundRating |-> RatingsOf(userId).soundRating,
                         venueRating |-> RatingsOf(userId).venueRating,
                         valueRating |-> RatingsOf(userId).valueRating,
                         likes |-> 0])
               ELSE UNCHANGED reviews
    /\ UNCHANGED <<now, consumerKey, apiKey>>
    /\ UNCHANGED <<queryVars, socialVars, requestVars>>

\* time passes
Tick ==
    /\ now < MaxClock
    /\ now' = now + 1
    /\ UNCHANGED <<concerts, reviews, consumerKey, apiKey>>
    /\ UNCHANGED <<queryVars, socialVars, requestVars>>

----------------------------------------------------------------------------
(* Requests in progress *)

\* the connections that carry concurrent requests
Connections == {"c1", "c2"}

NoReviewReq ==
    [pc |-> "idle", userId |-> NoUser, concert |-> <<>>, concertId |-> <<"", 0>>,
     valid |-> FALSE, existingConcert |-> <<>>, inserted |-> FALSE, status |-> 0]

NoLikeOp ==
    [pc |-> "idle", op |-> "", userId |-> NoUser, reviewId |-> 0,
     pending |-> {}, failed |-> FALSE, returned |-> ""]

NoOtherQuery ==
    [pc |-> "idle", options |-> DefaultOptions, dbConcerts |-> <<>>,
     combinedConcerts |-> <<>>, allConcertIds |-> {},
     tmResponse |-> NoTmResponse, sfmResponse |-> NoSfmResponse,
     clock |-> 0, result |-> <<>>]

NoResponse == [route |-> "", status |-> 0, userId |-> NoUser, id |-> 0]

----------------------------------------------------------------------------
(* A second call of getConcertsWithHistorical, running beside the first *)

\* mutant: the dedup loop of the second call also looks at the ids the
\* first call has seen
OtherMergeSharedSeen(o, extra) ==
    AddUnseen(o.combinedConcerts, o.allConcertIds \cup allConcertIds, extra)

\* the dedup loop over the second call's own combinedConcerts and
\* allConcertIds
OtherMerge(o, extra) ==
    AddUnseen(o.combinedConcerts, o.allConcertIds, extra)

\* the synchronous code of the second call up to its next await or return
OtherProceed(o, stage, merged) ==
    [o EXCEPT !.pc = NextPc(o.options, stage),
              !.combinedConcerts = merged.combinedConcerts,
              !.allConcertIds = merged.allConcertIds,
              !.result = IF NextPc(o.options, stage) = "done"
                         THEN Paginate(PostFilter(merged.combinedConcerts, o.options),
                                       o.options)
                         ELSE <<>>]

OtherStart(opts) ==
    /\ other.pc = "idle"
    /\ other' = OtherProceed([NoOtherQuery EXCEPT !.options = opts,
                                                  !.dbConcerts = getConcerts(opts),
                                                  !.clock = now],
                             1, [combinedConcerts |-> getConcerts(opts),
                                 allConcertIds |-> Ids(getConcerts(opts))])
    /\ UNCHANGED <<concerts, reviews, now, consumerKey, apiKey, queryVars,
                   socialVars, reviewReqs, likeOps, response>>

OtherTicketmasterReturns(outcome) ==
    /\ other.pc = "awaitTicketmaster"
    /\ consumerKey
    /\ Len(outcome.events) <= OrDefault(other.options.limit, DefaultLimit)
    /\ LET r == searchTicketmasterEvents(consumerKey, outcome)
           tmConcerts == [i \in 1..Len(r.value) |-> WithDefaultRatings(r.value[i], now)]
       IN other' = OtherProceed([other EXCEPT !.tmResponse = outcome], 2,
                                OtherMerge(other, tmConcerts))
    /\ UNCHANGED <<concerts, reviews, now, consumerKey, apiKey, queryVars,
                   socialVars, reviewReqs, likeOps, response>>

OtherSetlistFmReturns(outcome) ==
    /\ other.pc = "awaitSetlistFm"
    /\ apiKey
    /\ LET r == searchSetlistFmEvents(apiKey, outcome)
           sfmConcerts == [i \in 1..Len(r.value) |-> WithDefaultRatings(r.value[i], now)]
       IN other' = OtherProceed([other EXCEPT !.sfmResponse = outcome], 3,
                                OtherMerge(other, sfmConcerts))
    /\ UNCHANGED <<concerts, reviews, now, consumerKey, apiKey, queryVars,
                   socialVars, reviewReqs, likeOps, response>>

OtherReturn ==
    /\ other.pc = "done"
    /\ other' = NoOtherQuery
    /\ UNCHANGED <<concerts, reviews, now, consumerKey, apiKey, queryVars,
                   socialVars, reviewReqs, likeOps, response>>

----------------------------------------------------------------------------
(* POST /api/reviews, one await at a time *)

\* the concert objects clients send with a review: what a provider search
\* showed them, or the same id with data of their own
ReviewPayloads ==
    ConcertPayloads
    \cup { [transformEvent(TmEvent1) EXCEPT !.artist = <<"D", "a", "y">>] }

\* mutant: the insert is not refused when a row with the id exists
InsertConcertNoKey(id, data) ==
    [ok |-> TRUE, rows |-> <<ConcertRow(id, data)>> \o concerts]

\* db.insert(concerts).values({id, ...}): the primary key refuses a second
\* row with the id
InsertConcert(id, data) ==
    IF id \in Ids(concerts)
    THEN [ok |-> FALSE, rows |-> concerts]
    ELSE [ok |-> TRUE, rows |-> <<ConcertRow(id, data)>> \o concerts]

\* storage.createReview: the insert is refused when the concert row is
\* missing (foreign key) or the user already reviewed the concert (unique)
CreateReviewOk(userId, concertId) ==
    /\ concertId \in Ids(concerts)
    /\ ~ \E k \in 1..Len(reviews) :
           reviews[k].userId = userId /\ reviews[k].concertId = concertId

ReviewRow(userId, concertId) ==
    [id |-> FreshReviewId, userId |-> userId, concertId |-> concertId,
     overallRating |-> RatingsOf(userId).overallRating,
     performanceRating |-> RatingsOf(userId).performanceRating,
     soundRating |-> RatingsOf(userId).soundRating,
     venueRating |-> RatingsOf(userId).venueRating,
     valueRating |-> RatingsOf(userId).valueRating,
     likes |-> 0]

\* insertReviewSchema.safeParse and what follows it up to the next await
Validated(req) ==
    IF req.valid
    THEN [req EXCEPT !.pc = "createReview"]
    ELSE [req EXCEPT !.pc = "done", !.status = 400]

\* the request arrives and runs up to its first await
ReviewPost(c, userId, concert, concertId, valid) ==
    /\ pc = "idle"
    /\ reviewReqs[c].pc = "idle"
    /\ concert # <<>> => concertId = concert[1].id
    /\ LET req == [NoReviewReq EXCEPT !.userId = userId, !.concert = concert,
                                      !.concertId = concertId, !.valid = valid]
       IN reviewReqs' =
             [reviewReqs EXCEPT ![c] =
                 IF userId = NoUser
                 THEN [req EXCEPT !.pc = "done", !.status = 401]
                 ELSE IF concert # <<>>
                      THEN [req EXCEPT !.pc = "getConcert"]
                      ELSE Validated(req)]
    /\ UNCHANGED <<concerts, reviews, now, consumerKey, apiKey, queryVars,
                   socialVars, likeOps, other, response>>

\* `await storage.getConcert(concertId)` completes
ReviewGetConcert(c) ==
    /\ reviewReqs[c].pc = "getConcert"
    /\ LET req == [reviewReqs[c] EXCEPT
                      !.existingConcert = getConcert(reviewReqs[c].concert[1].id)]
       IN reviewReqs' =
             [reviewReqs EXCEPT ![c] =
                 IF req.existingConcert = <<>>
                 THEN [req EXCEPT !.pc = "insertConcert"]
                 ELSE Validated(req)]
    /\ UNCHANGED <<concerts, reviews, now, consumerKey, apiKey, queryVars,
                   socialVars, likeOps, other, response>>

\* `await db.insert(concerts).values(...)` completes; a refused insert is
\* thrown to the catch block, which answers 500
ReviewInsertConcert(c) ==
    /\ reviewReqs[c].pc = "insertConcert"
    /\ LET req == reviewReqs[c]
           ins == InsertConcert(req.concert[1].id, req.concert[1])
       IN /\ concerts' = ins.rows
          /\ reviewReqs' =
                [reviewReqs EXCEPT ![c] =
                    IF ins.ok
                    THEN Validated([req EXCEPT !.inserted = TRUE])
                    ELSE [req EXCEPT !.pc = "done", !.status = 500]]
    /\ UNCHANGED <<reviews, now, consumerKey, apiKey, queryVars,
                   socialVars, likeOps, other, response>>

\* `await storage.createReview(validation.data)` completes
ReviewCreate(c) ==
    /\ reviewReqs[c].pc = "createReview"
    /\ LET req == reviewReqs[c]
       IN IF CreateReviewOk(req.userId, req.concertId)
          THEN /\ reviews' = Append(reviews, ReviewRow(req.userId, req.concertId))
               /\ reviewReqs' = [reviewReqs EXCEPT ![c] =
                                    [req EXCEPT !.pc = "done", !.status = 201]]
          ELSE /\ reviews' = reviews
               /\ reviewReqs' = [reviewReqs EXCEPT ![c] =
                                    [req EXCEPT !.pc = "done", !.status = 500]]
    /\ UNCHANGED <<concerts, now, consumerKey, apiKey, queryVars,
                   socialVars, likeOps, other, response>>

----------------------------------------------------------------------------
(* PostgresStorage.likeReview and unlikeReview, one statement at a time *)

\* UPDATE reviews SET likes = likes + 1 WHERE id = reviewId
IncrementLikes(reviewId) ==
    [k \in 1..Len(reviews) |->
        IF reviews[k].id = reviewId
        THEN [reviews[k] EXCEPT !.likes = @ + 1]
        ELSE reviews[k]]

\* UPDATE reviews SET likes = GREATEST(likes - 1, 0) WHERE id = reviewId
DecrementLikes(reviewId) ==
    [k \in 1..Len(reviews) |->
        IF reviews[k].id = reviewId
        THEN [reviews[k] EXCEPT !.likes = IF @ - 1 > 0 THEN @ - 1 ELSE 0]
        ELSE reviews[k]]

\* a statement of the Promise.all has completed; the call settles with the
\* last of them
StatementDone(op, statement, failed) ==
    LET rest == op.pending \ {statement}
    IN [op EXCEPT !.pending = rest,
                  !.failed = op.failed \/ failed,
                  !.pc = IF rest = {} THEN "done" ELSE op.pc,
                  !.returned = IF rest # {} THEN op.returned
                               ELSE IF op.failed \/ failed THEN "caught"
                               ELSE IF op.op = "like" THEN "like" ELSE "true"]

\* likeReview is called: both statements of the Promise.all are issued
LikeReview(c, userId, reviewId) ==
    /\ likeOps[c].pc = "idle"
    /\ \A k \in 1..Len(reviews) : reviews[k].likes < MaxLikes
    /\ likeOps' = [likeOps EXCEPT ![c] =
                      [NoLikeOp EXCEPT !.pc = "statements", !.op = "like",
                                       !.userId = userId, !.reviewId = reviewId,
                                       !.pending = {"insert", "update"}]]
    /\ UNCHANGED <<concerts, reviews, now, consumerKey, apiKey, queryVars,
                   socialVars, reviewReqs, other, response>>

\* db.insert(reviewLikes).values(like): refused when the review row is
\* missing (foreign key) or the user's like of the review exists (unique)
LikeInsert(c) ==
    /\ "insert" \in likeOps[c].pending
    /\ LET op == likeOps[c]
           row == [userId |-> op.userId, reviewId |-> op.reviewId]
           refused == \/ row \in reviewLikes
                      \/ op.userId \notin users
                      \/ ~ \E k \in 1..Len(reviews) : reviews[k].id = op.reviewId
       IN /\ reviewLikes' = IF refused THEN reviewLikes ELSE reviewLikes \cup {row}
          /\ likeOps' = [likeOps EXCEPT ![c] = StatementDone(op, "insert", refused)]
    /\ UNCHANGED <<concerts, reviews, now, consumerKey, apiKey, queryVars,
                   users, reviewComments, concertWishlists, userFollows,
                   reviewReqs, other, response>>

\* db.update(reviews).set({likes: likes + 1}), or GREATEST(likes - 1, 0)
\* for unlikeReview
LikeUpdate(c) ==
    /\ "update" \in likeOps[c].pending
    /\ reviews' = IF likeOps[c].op = "like"
                  THEN IncrementLikes(likeOps[c].reviewId)
                  ELSE DecrementLikes(likeOps[c].reviewId)
    /\ likeOps' = [likeOps EXCEPT ![c] = StatementDone(likeOps[c], "update", FALSE)]
    /\ UNCHANGED <<concerts, now, consumerKey, apiKey, queryVars,
                   socialVars, reviewReqs, other, response>>

\* unlikeReview up to its Promise.all: the select of the existing like
\* completes; without a like the call returns false
UnlikeReview(c, userId, reviewId) ==
    /\ likeOps[c].pc = "idle"
    /\ likeOps' = [likeOps EXCEPT ![c] =
                      IF [userId |-> userId, reviewId |-> reviewId] \in reviewLikes
                      THEN [NoLikeOp EXCEPT !.pc = "statements", !.op = "unlike",
                                            !.userId = userId, !.reviewId = reviewId,
                                            !.pending = {"delete", "update"}]
                      ELSE [NoLikeOp EXCEPT !.pc = "done", !.op = "unlike",
                                            !.userId = userId, !.reviewId = reviewId,
                                            !.returned = "false"]]
    /\ UNCHANGED <<concerts, reviews, now, consumerKey, apiKey, queryVars,
                   socialVars, reviewReqs, other, response>>

\* db.delete(reviewLikes).where(userId and reviewId)
UnlikeDelete(c) ==
    /\ "delete" \in likeOps[c].pending
    /\ reviewLikes' = reviewLikes \ {[userId |-> likeOps[c].userId,
                                       reviewId |-> likeOps[c].reviewId]}
    /\ likeOps' = [likeOps EXCEPT ![c] = StatementDone(likeOps[c], "delete", FALSE)]
    /\ UNCHANGED <<concerts, reviews, now, consumerKey, apiKey, queryVars,
                   users, reviewComments, concertWishlists, userFollows,
                   reviewReqs, other, response>>

\* the caller has the result of the call
LikeReturn(c) ==
    /\ likeOps[c].pc = "done"
    /\ likeOps' = [likeOps EXCEPT ![c] = NoLikeOp]
    /\ UNCHANGED <<concerts, reviews, now, consumerKey, apiKey, queryVars,
                   socialVars, reviewReqs, other, response>>

----------------------------------------------------------------------------
(* Comments, wishlists and follows *)

\* POST /api/reviews/:reviewId/comments -> storage.createReviewComment; the
\* insert is refused without the user row or the review row (foreign keys)
CreateReviewComment(userId, reviewId) ==
    /\ reviewComments' =
          IF userId \in users /\ \E k \in 1..Len(reviews) : reviews[k].id = reviewId
          THEN reviewComments \cup {[userId |-> userId, reviewId |-> reviewId]}
          ELSE reviewComments
    /\ UNCHANGED <<concerts, reviews, now, consumerKey, apiKey, queryVars,
                   users, reviewLikes, concertWishlists, userFollows, requestVars>>

\* POST /api/users/me/wishlist -> storage.addToWishlist
AddToWishlist(userId, concertId) ==
    /\ concertWishlists' =
          IF userId \in users /\ concertId \in Ids(concerts)
          THEN concertWishlists \cup {[userId |-> userId, concertId |-> concertId]}
          ELSE concertWishlists
    /\ UNCHANGED <<concerts, reviews, now, consumerKey, apiKey, queryVars,
                   users, reviewLikes, reviewComments, userFollows, requestVars>>

\* POST /api/users/:userId/follow -> storage.followUser
FollowUser(followerId, followingId) ==
    /\ userFollows' =
          IF followerId # followingId /\ followerId \in users /\ followingId \in users
          THEN userFollows \cup {[followerId |-> followerId, followingId |-> followingId]}
          ELSE userFollows
    /\ UNCHANGED <<concerts, reviews, now, consumerKey, apiKey, queryVars,
                   users, reviewLikes, reviewComments, concertWishlists, requestVars>>

----------------------------------------------------------------------------
(* PostgresStorage.deleteUser and DELETE /api/users/me *)

\* the tables deleteUser touches
Tables ==
    [users |-> users, reviews |-> reviews, reviewLikes |-> reviewLikes,
     reviewComments |-> reviewComments, concertWishlists |-> concertWishlists,
     userFollows |-> userFollows]

ReviewIdsOf(userId) ==
    { reviews[k].id : k \in { j \in 1..Len(reviews) : reviews[j].userId = userId } }

\* step k of the transaction body (step 1 only reads userReviewIds); the
\* deletes of steps 8 and 9 cascade to the rows that reference the row
DeleteStep(db, id, userReviewIds, k) ==
    CASE k = 2 -> [db EXCEPT !.reviewComments =
                      { c \in @ : c.reviewId \notin userReviewIds }]
      [] k = 3 -> [db EXCEPT !.reviewLikes =
                      { l \in @ : l.reviewId \notin userReviewIds }]
      [] k = 4 -> [db EXCEPT !.reviewComments = { c \in @ : c.userId # id }]
      [] k = 5 -> [db EXCEPT !.reviewLikes = { l \in @ : l.userId # id }]
      [] k = 6 -> [db EXCEPT !.concertWishlists = { w \in @ : w.userId # id }]
      [] k = 7 -> [db EXCEPT !.userFollows =
                      { f \in @ : f.followerId # id /\ f.followingId # id }]
      [] k = 8 -> [db EXCEPT !.reviews = SelectSeq(@, LAMBDA r : r.userId # id),
                             !.reviewComments =
                                { c \in @ : c.reviewId \notin userReviewIds },
                             !.reviewLikes =
                                { l \in @ : l.reviewId \notin userReviewIds }]
      [] k = 9 -> [db EXCEPT !.users = @ \ {id},
                             !.reviews = SelectSeq(@, LAMBDA r : r.userId # id),
                             !.reviewComments = { c \in @ : c.userId # id },
                             !.reviewLikes = { l \in @ : l.userId # id },
                             !.concertWishlists = { w \in @ : w.userId # id },
                             !.userFollows =
                                { f \in @ : f.followerId # id /\ f.followingId # id }]
      [] OTHER -> db

\* steps k..last of the transaction body, in order
RECURSIVE DeleteSteps(_, _, _, _, _)
DeleteSteps(db, id, userReviewIds, k, last) ==
    IF k > last
    THEN db
    ELSE DeleteSteps(DeleteStep(db, id, userReviewIds, k), id, userReviewIds,
                     k + 1, last)

\* mutant: what the steps did before the failure is kept
TransactionNoRollback(db, partial, committed) == partial

\* db.transaction: the work of the callback is committed as a whole, or
\* rolled back when a statement throws
Transaction(db, partial, committed) == IF committed THEN partial ELSE db

\* the statements of a transaction body, and what may throw: transaction()
\* itself (0), one of the steps (1..9), or nothing (10)
LastStep == 9
Failures == 0..(LastStep + 1)

\* PostgresStorage.deleteUser: the tables afterwards and the value returned.
\* The catch returns false; a commit returns whether the user row was there
deleteUser(id, failAt) ==
    LET partial == DeleteSteps(Tables, id, ReviewIdsOf(id), 1, failAt - 1)
        committed == failAt > LastStep
    IN [tables |-> Transaction(Tables, partial, committed),
        returned |-> committed /\ id \in users]

\* DELETE /api/users/me
DeleteMe(userId, failAt) ==
    /\ IF userId = NoUser
       THEN /\ response' = [NoResponse EXCEPT !.route = "DELETE /api/users/me",
                                              !.status = 401, !.userId = userId]
            /\ UNCHANGED <<reviews, socialVars>>
       ELSE LET r == deleteUser(userId, failAt)
            IN /\ users' = r.tables.users
               /\ reviews' = r.tables.reviews
               /\ reviewLikes' = r.tables.reviewLikes
               /\ reviewComments' = r.tables.reviewComments
               /\ concertWishlists' = r.tables.concertWishlists
               /\ userFollows' = r.tables.userFollows
               /\ response' = [NoResponse EXCEPT
                                  !.route = "DELETE /api/users/me",
                                  !.status = IF r.returned THEN 204 ELSE 500,
                                  !.userId = userId]
    /\ UNCHANGED <<concerts, now, consumerKey, apiKey, queryVars,
                   reviewReqs, likeOps, other>>

----------------------------------------------------------------------------
(* PUT and DELETE /api/reviews/:id *)

\* storage.getReview(id)
getReview(id) == SelectSeq(reviews, LAMBDA r : r.id = id)

\* mutant: the handlers do not compare the review's userId with the caller
OwnsAlways(existingReview, userId) == TRUE

\* `existingReview.userId !== userId` of both handlers
Owns(existingReview, userId) == existingReview.userId = userId

\* bodies of PUT /api/reviews/:id: one that fails the partial
\* insertReviewSchema, one that sets overallRating, and one that sets userId
UpdateBodies ==
    { [valid |-> FALSE, overallRating |-> <<>>, userId |-> <<>>],
      [valid |-> TRUE, overallRating |-> <<1>>, userId |-> <<>>] }
    \cup { [valid |-> TRUE, overallRating |-> <<>>, userId |-> <<u>>] : u \in Users }

\* the row after `.set({...updates})`
Updated(review, body) ==
    [review EXCEPT
        !.overallRating = IF body.overallRating # <<>> THEN body.overallRating[1] ELSE @,
        !.userId = IF body.userId # <<>> THEN body.userId[1] ELSE @]

\* storage.updateReview: the update is refused when the new userId has no
\* user row (foreign key) or already has a review of the concert (unique)
updateReview(id, body) ==
    LET refused ==
           \E k \in 1..Len(reviews) :
              /\ reviews[k].id = id
              /\ \/ Updated(reviews[k], body).userId \notin users
                 \/ \E j \in 1..Len(reviews) :
                       /\ reviews[j].id # id
                       /\ reviews[j].userId = Updated(reviews[k], body).userId
                       /\ reviews[j].concertId = reviews[k].concertId
    IN [ok |-> ~refused,
        rows |-> IF refused
                 THEN reviews
                 ELSE [k \in 1..Len(reviews) |->
                          IF reviews[k].id = id
                          THEN Updated(reviews[k], body) ELSE reviews[k]]]

\* PUT /api/reviews/:id
UpdateReview(userId, id, body) ==
    /\ LET existingReview == getReview(id)
           status == IF existingReview = <<>> THEN 404
                     ELSE IF ~Owns(existingReview[1], userId) THEN 403
                     ELSE IF ~body.valid THEN 400
                     ELSE IF updateReview(id, body).ok THEN 200
                     ELSE 500
       IN /\ reviews' = IF status = 200 THEN updateReview(id, body).rows ELSE reviews
          /\ response' = [route |-> "PUT /api/reviews/:id", status |-> status,
                          userId |-> userId, id |-> id]
    /\ UNCHANGED <<concerts, now, consumerKey, apiKey, queryVars, socialVars,
                   reviewReqs, likeOps, other>>

\* DELETE /api/reviews/:id -> storage.deleteReview; the delete cascades to
\* the likes and comments of the review
DeleteReview(userId, id) ==
    /\ LET existingReview == getReview(id)
           status == IF existingReview = <<>> THEN 404
                     ELSE IF ~Owns(existingReview[1], userId) THEN 403
                     ELSE 204
       IN /\ reviews' = IF status = 204
                        THEN SelectSeq(reviews, LAMBDA r : r.id # id)
                        ELSE reviews
          /\ reviewLikes' = IF status = 204
                            THEN { l \in reviewLikes : l.reviewId # id }
                            ELSE reviewLikes
          /\ reviewComments' = IF status = 204
                               THEN { c \in reviewComments : c.reviewId # id }
                               ELSE reviewComments
          /\ response' = [route |-> "DELETE /api/reviews/:id", status |-> status,
                          userId |-> userId, id |-> id]
    /\ UNCHANGED <<concerts, now, consumerKey, apiKey, queryVars, users,
                   concertWishlists, userFollows, reviewReqs, likeOps, other>>

----------------------------------------------------------------------------
(* Specification *)

\* empty tables, no call in progress
InitState ==
    /\ concerts = <<>>
    /\ reviews = <<>>
    /\ now = 0
    /\ pc = "idle"
    /\ options = DefaultOptions
    /\ dbConcerts = <<>>
    /\ combinedConcerts = <<>>
    /\ allConcertIds = {}
    /\ tmResponse = NoTmResponse
    /\ tmEvents = <<>>
    /\ sfmResponse = NoSfmResponse
    /\ sfmEvents = <<>>
    /\ filteredConcerts = <<>>
    /\ result = <<>>
    /\ reviewedAtStart = {}
    /\ prev = <<>>
    /\ tmCalls = <<>>
    /\ sfmCalls = <<>>
    /\ tmRequests = <<>>
    /\ sfmRequests = <<>>
    /\ tmThrew = FALSE
    /\ sfmThrew = FALSE
    /\ users = Users
    /\ reviewLikes = {}
    /\ reviewComments = {}
    /\ concertWishlists = {}
    /\ userFollows = {}
    /\ reviewReqs = [c \in Connections |-> NoReviewReq]
    /\ likeOps = [c \in Connections |-> NoLikeOp]
    /\ other = NoOtherQuery
    /\ response = NoResponse

\* both providers are configured
Init ==
    /\ consumerKey = TRUE
    /\ apiKey = TRUE
    /\ InitState

Next ==
    \/ \E opts \in QueryOptions : QueryStart(opts)
    \/ Return
    \/ \E outcome \in TmOutcomes \cup {NoTmResponse} : TicketmasterReturns(outcome)
    \/ \E outcome \in SfmOutcomes \cup {NoSfmResponse} : SetlistFmReturns(outcome)
    \/ \E input \in ConcertInputs : CreateConcert(input)
    \/ \E userId \in Users \cup {NoUser}, concert \in {<<>>} \cup { <<p>> : p \in ConcertPayloads },
          concertId \in Ids(concerts) \cup { p.id : p \in ConcertPayloads },
          valid \in BOOLEAN :
          SubmitReview(userId, concert, concertId, valid)

Spec == Init /\ [][Next]_vars

\* the specification in which the caller repeats calls while time passes
RepeatOptions ==
    { o \in QueryOptions :
        o.search = <<>> /\ o.genre = <<>> /\ o.city = <<>> /\ o.offset = Undefined }

NextRepeat ==
    \/ \E opts \in RepeatOptions : QueryStart(opts)
    \/ QueryAgain
    \/ \E outcome \in TmOutcomes \cup {NoTmResponse} : TicketmasterReturns(outcome)
    \/ \E outcome \in SfmOutcomes \cup {NoSfmResponse} : SetlistFmReturns(outcome)
    \/ Return
    \/ \E input \in ConcertInputs : CreateConcert(input)
    \/ Tick

SpecRepeat == Init /\ [][NextRepeat]_vars

\* the specification of calls that omit the limit, against a live provider
\* that can fill the page it is asked for (size = limit || 20)
TmFullPage == [i \in 1..DefaultLimit |-> [TmEvent2 EXCEPT !.id = i]]

PageOptions ==
    { o \in QueryOptions :
        o.search = <<>> /\ o.genre = <<>> /\ o.city = <<>> /\ o.limit = Undefined }

NextPage ==
    \/ \E opts \in PageOptions : QueryStart(opts)
    \/ \E outcome \in TmOutcomes \cup {NoTmResponse, [status |-> 200, events |-> TmFullPage]} :
          TicketmasterReturns(outcome)
    \/ \E outcome \in SfmOutcomes \cup {NoSfmResponse} : SetlistFmReturns(outcome)
    \/ Return
    \/ \E input \in ConcertInputs : CreateConcert(input)
    \/ \E userId \in Users \cup {NoUser}, concert \in {<<>>} \cup { <<p>> : p \in ConcertPayloads },
          concertId \in Ids(concerts) \cup { p.id : p \in ConcertPayloads },
          valid \in BOOLEAN :
          SubmitReview(userId, concert, concertId, valid)

SpecPage == Init /\ [][NextPage]_vars

\* the specification of a process started with any of the provider keys
\* missing from its environment
InitKeys ==
    /\ consumerKey \in BOOLEAN
    /\ apiKey \in BOOLEAN
    /\ InitState

KeyOptions ==
    { o \in QueryOptions : o.search = <<>> /\ o.genre = <<>> /\ o.city = <<>> }

NextKeys ==
    \/ \E opts \in KeyOptions : QueryStart(opts)
    \/ \E outcome \in TmOutcomes \cup {NoTmResponse} : TicketmasterReturns(outcome)
    \/ \E outcome \in SfmOutcomes \cup {NoSfmResponse} : SetlistFmReturns(outcome)
    \/ Return
    \/ \E input \in ConcertInputs : CreateConcert(input)
    \/ \E userId \in Users \cup {NoUser}, concert \in {<<>>} \cup { <<p>> : p \in ConcertPayloads },
          concertId \in Ids(concerts) \cup { p.id : p \in ConcertPayloads },
          valid \in BOOLEAN :
          SubmitReview(userId, concert, concertId, valid)

SpecKeys == InitKeys /\ [][NextKeys]_vars

\* the specification of calls against a historical provider whose setlists
\* carry any of these eventDate texts
SetlistDates ==
    { <<"0", "5", "-", "0", "3", "-", "2", "0", "2", "4">>,
      <<"5", "-", "3", "-", "2", "0", "2", "4">>,
      <<"1", "5", "-", "3", "-", "2", "0", "2", "4">>,
      <<"5", "-", "1", "2", "-", "1", "9", "9", "9">>,
      <<"2", "0", "2", "4", "-", "0", "3", "-", "0", "5">>,
      <<"0", "3", "-", "2", "0", "2", "4">>,
      <<"0", "5", "/", "0", "3", "/", "2", "0", "2", "4">>,
      <<"x", "x", "-", "0", "3", "-", "2", "0", "2", "4">>,
      <<"2", "0", "2", "4">>,
      <<>> }

DateOutcomes ==
    { [status |-> 200, setlist |-> <<[Setlist1 EXCEPT !.eventDate = d]>>] :
        d \in SetlistDates }
    \cup { [status |-> 200,
            setlist |-> <<[Setlist1 EXCEPT !.eventDate = d], Setlist2>>] :
            d \in SetlistDates }

DateOptions ==
    { o \in QueryOptions :
        /\ o.search = <<>> /\ o.genre = <<>> /\ o.city = <<>>
        /\ o.includeHistorical /\ ~o.includeTicketmaster }

NextDates ==
    \/ \E opts \in DateOptions : QueryStart(opts)
    \/ \E outcome \in DateOutcomes : SetlistFmReturns(outcome)
    \/ Return
    \/ \E input \in ConcertInputs : CreateConcert(input)

SpecDates == Init /\ [][NextDates]_vars

\* the specification of calls against a live provider whose events carry
\* any of these image lists, on the event and on its attraction
EventImageLists ==
    { <<>>, <<ImageA>>, <<ImageB>>, <<ImageA, ImageC>>, <<ImageC, ImageA>>,
      <<ImageC, ImageD>>, <<ImageD, ImageC>>, <<ImageA, ImageD, ImageC>>,
      <<ImageC, ImageB>>, <<ImageA, ImageE, ImageB>>, <<ImageD, ImageB, ImageE>> }
AttractionImageLists ==
    { <<>>, <<ImageB>>, <<ImageA, ImageD>>, <<ImageC, ImageE>> }

ImageOutcomes ==
    { [status |-> 200,
       events |-> <<[TmEvent1 EXCEPT !.images = e, !.attractionImages = a]>>] :
        e \in EventImageLists, a \in AttractionImageLists }
    \cup { [status |-> 200,
            events |-> <<TmEvent2,
                         [TmEvent1 EXCEPT !.images = e, !.attractionImages = a]>>] :
            e \in EventImageLists, a \in AttractionImageLists }

ImageOptions ==
    { o \in QueryOptions :
        /\ o.search = <<>> /\ o.genre = <<>> /\ o.city = <<>>
        /\ o.limit = Undefined
        /\ o.includeTicketmaster /\ ~o.includeHistorical }

NextImages ==
    \/ \E opts \in ImageOptions : QueryStart(opts)
    \/ \E outcome \in ImageOutcomes : TicketmasterReturns(outcome)
    \/ Return
    \/ \E input \in ConcertInputs : CreateConcert(input)

SpecImages == Init /\ [][NextImages]_vars

\* the specification of calls that carry date bounds, against a live
\* provider that honours startDateTime and endDateTime
June1 == <<"2", "0", "2", "4", "-", "0", "6", "-", "0", "1">>
June15 == <<"2", "0", "2", "4", "-", "0", "6", "-", "1", "5">>
June30 == <<"2", "0", "2", "4", "-", "0", "6", "-", "3", "0">>

BoundOptions ==
    { [o EXCEPT !.startDate = s, !.endDate = e] :
        o \in { q \in QueryOptions :
                  /\ q.search = <<>> /\ q.genre = <<>> /\ q.city = <<>>
                  /\ q.limit = Undefined /\ q.offset = Undefined },
        s \in {<<>>, June1}, e \in {<<>>, June30} }

BoundTmOutcomes ==
    { [status |-> 200, events |-> e] :
        e \in { <<>>, <<TmEvent1>>, <<[TmEvent1 EXCEPT !.localDate = June15]>>,
                <<TmEvent2, [TmEvent1 EXCEPT !.localDate = June15]>> } }
    \cup { [status |-> 500, events |-> <<>>] }

\* the year, month and day of an ISO date text as one number
RECURSIVE DigitsValue(_)
DigitsValue(text) ==
    IF text = <<>>
    THEN 0
    ELSE LET last == text[Len(text)]
             digit == CHOOSE n \in 0..9 :
                         <<"0", "1", "2", "3", "4", "5", "6", "7", "8", "9">>[n + 1] = last
         IN 10 * DigitsValue(SubSeq(text, 1, Len(text) - 1)) + digit
DateValue(text) == DigitsValue(SelectSeq(SubSeq(text, 1, 10), LAMBDA ch : ch # "-"))

\* the live provider's filter on the startDateTime / endDateTime it is sent
HonoursBounds(request, events) ==
    \A i \in 1..Len(events) :
       /\ request.startDateTime # <<>> =>
             DateValue(request.startDateTime) <= DateValue(events[i].localDate)
       /\ request.endDateTime # <<>> =>
             DateValue(events[i].localDate) <= DateValue(request.endDateTime)

NextBounds ==
    \/ \E opts \in BoundOptions : QueryStart(opts)
    \/ \E outcome \in BoundTmOutcomes :
          /\ tmRequests # <<>>
          /\ HonoursBounds(tmRequests[1], outcome.events)
          /\ TicketmasterReturns(outcome)
    \/ \E outcome \in SfmOutcomes : SetlistFmReturns(outcome)
    \/ Return
    \/ \E input \in ConcertInputs : CreateConcert(input)

SpecBounds == Init /\ [][NextBounds]_vars

\* the specification of likeReview and unlikeReview calls that run
\* concurrently on the reviews users submitted
NextLikes ==
    \/ \E userId \in Users, p \in ConcertPayloads :
          SubmitReview(userId, <<p>>, p.id, TRUE)
    \/ \E c \in Connections, userId \in Users, reviewId \in 1..MaxReviews :
          LikeReview(c, userId, reviewId)
    \/ \E c \in Connections : LikeInsert(c)
    \/ \E c \in Connections : LikeUpdate(c)
    \/ \E c \in Connections, userId \in Users, reviewId \in 1..MaxReviews :
          UnlikeReview(c, userId, reviewId)
    \/ \E c \in Connections : UnlikeDelete(c)
    \/ \E c \in Connections : LikeReturn(c)

SpecLikes == Init /\ [][NextLikes]_vars

\* the specification of account deletions. Either user reviews while every
\* account exists; bob likes and comments on reviews (his own and alice's)
\* and follows alice, alice keeps a wishlist; either account is deleted
NextAccounts ==
    \/ \E userId \in Users :
          /\ users = Users
          /\ SubmitReview(userId, <<transformEvent(TmEvent1)>>,
                          transformEvent(TmEvent1).id, TRUE)
    \/ \E reviewId \in 1..MaxReviews :
          /\ [userId |-> "bob", reviewId |-> reviewId] \notin reviewLikes
          /\ LikeReview("c1", "bob", reviewId)
    \/ LikeInsert("c1")
    \/ LikeUpdate("c1")
    \/ LikeReturn("c1")
    \/ \E reviewId \in 1..MaxReviews : CreateReviewComment("bob", reviewId)
    \/ AddToWishlist("alice", transformEvent(TmEvent1).id)
    \/ FollowUser("bob", "alice")
    \/ \E userId \in Users \cup {NoUser}, failAt \in Failures :
          DeleteMe(userId, failAt)

SpecAccounts == Init /\ [][NextAccounts]_vars

\* the specification of users who submit, edit and delete reviews; a
\* review is submitted while an id within MaxReviews is free
NextOwners ==
    \/ \E userId \in Users, p \in ConcertPayloads :
          /\ FreshReviewId <= MaxReviews
          /\ SubmitReview(userId, <<p>>, p.id, TRUE)
    \/ \E userId \in Users, reviewId \in 1..MaxReviews :
          CreateReviewComment(userId, reviewId)
    \/ \E userId \in Users \cup {NoUser}, id \in 1..MaxReviews, body \in UpdateBodies :
          UpdateReview(userId, id, body)
    \/ \E userId \in Users \cup {NoUser}, id \in 1..MaxReviews :
          DeleteReview(userId, id)

SpecOwners == Init /\ [][NextOwners]_vars

\* the specification of two calls that run concurrently
PairOptions ==
    { o \in QueryOptions :
        o.search = <<>> /\ o.genre = <<>> /\ o.city = <<>> /\ o.limit = Undefined }

PairTmOutcomes == { o \in TmOutcomes : o.status \in {200, 500} /\ Len(o.events) <= 1 }
PairSfmOutcomes == { o \in SfmOutcomes : o.status \in {200, 500} }

NextPair ==
    \/ \E opts \in PairOptions : QueryStart(opts)
    \/ \E outcome \in PairTmOutcomes : TicketmasterReturns(outcome)
    \/ \E outcome \in PairSfmOutcomes : SetlistFmReturns(outcome)
    \/ Return
    \/ \E opts \in PairOptions : OtherStart(opts)
    \/ \E outcome \in PairTmOutcomes : OtherTicketmasterReturns(outcome)
    \/ \E outcome \in PairSfmOutcomes : OtherSetlistFmReturns(outcome)
    \/ OtherReturn
    \/ \E input \in ConcertInputs : CreateConcert(input)

SpecPair == Init /\ [][NextPair]_vars

\* the specification of review submissions that run concurrently, one
\* request on each connection
NextReviews ==
    \/ \E c \in Connections, userId \in Users \cup {NoUser},
          concert \in {<<>>} \cup { <<p>> : p \in ReviewPayloads },
          concertId \in Ids(concerts) \cup { p.id : p \in ReviewPayloads },
          valid \in BOOLEAN :
          ReviewPost(c, userId, concert, concertId, valid)
    \/ \E c \in Connections : ReviewGetConcert(c)
    \/ \E c \in Connections : ReviewInsertConcert(c)
    \/ \E c \in Connections : ReviewCreate(c)
    \/ \E input \in ConcertInputs : CreateConcert(input)

SpecReviews == Init /\ [][NextReviews]_vars

----------------------------------------------------------------------------
(* Properties *)

\* where an entry of a result comes from: only the provider transforms add
\* ticketmasterId / isHistorical
FromTicketmaster(c) == c.ticketmasterId # <<>>
FromSetlistFm(c) == c.isHistorical
FromStore(c) == ~FromTicketmaster(c) /\ ~FromSetlistFm(c)

Offset == OrDefault(options.offset, 0)

TmFailed == tmResponse.status # Undefined /\ tmResponse.status \notin 200..299
SfmFailed == sfmResponse.status # Undefined /\ sfmResponse.status \notin 200..299

\* the records a provider contributes when it answers `list`, or nothing
AnsweredTm ==
    IF tmResponse.status \in 200..299
    THEN [i \in 1..Len(tmResponse.events) |->
             WithDefaultRatings(transformEvent(tmResponse.events[i]), now)]
    ELSE <<>>
AnsweredSfm ==
    IF sfmResponse.status \in 200..299
    THEN [i \in 1..Len(sfmResponse.setlist) |->
             WithDefaultRatings(transformSetlist(sfmResponse.setlist[i]), now)]
    ELSE <<>>

RECURSIVE FirstOccurrences(_, _)
FirstOccurrences(list, seen) ==
    IF list = <<>> THEN <<>>
    ELSE IF Head(list).id \in seen
         THEN FirstOccurrences(Tail(list), seen)
         ELSE <<Head(list)>> \o FirstOccurrences(Tail(list), seen \cup {Head(list).id})

\* store records, then the live records not seen, then the historical ones
MergedAnswer ==
    LET withTm == dbConcerts \o FirstOccurrences(AnsweredTm, Ids(dbConcerts))
    IN withTm \o FirstOccurrences(AnsweredSfm, Ids(withTm))

RECURSIVE IsSubsequence(_, _)
IsSubsequence(a, b) ==
    IF a = <<>> THEN TRUE
    ELSE IF b = <<>> THEN FALSE
    ELSE IF Head(a) = Head(b) THEN IsSubsequence(Tail(a), Tail(b))
    ELSE IsSubsequence(a, Tail(b))

IdsOf(list) == [i \in 1..Len(list) |-> list[i].id]

\* C1: no two entries of a returned list share an id, whatever the filter,
\* the pagination, the toggles and the provider responses (a response that
\* repeats an id or reuses the id of a stored concert included).
C1_UniqueIds ==
    pc = "done" =>
        \A i, j \in 1..Len(result) : result[i].id = result[j].id => i = j

C1_Witness ==
    /\ pc = "done"
    /\ tmResponse.events = <<TmEvent1, TmEvent2, TmEvent1>>
    /\ <<"tm_", 1>> \in Ids(dbConcerts)
    /\ sfmResponse.setlist = <<Setlist2, Setlist1, Setlist2>>
    /\ Len(result) >= 4

\* C2: when a provider call fails (a response that is not 2xx, or a network
\* failure), the call returns the list it would return had that provider
\* answered with zero records: store records and the other provider's
\* records merged, post-filtered and paginated.
C2_FailureIsEmptyAnswer ==
    (pc = "done" /\ (TmFailed \/ SfmFailed)) =>
        result = Paginate(PostFilter(MergedAnswer, options), options)

C2_Witness ==
    /\ pc = "done"
    /\ TmFailed
    /\ sfmResponse.status = 200
    /\ \E i \in 1..Len(result) : FromStore(result[i])
    /\ \E i \in 1..Len(result) : FromSetlistFm(result[i])

\* C3 (as claimed): with both toggles off the call returns exactly what
\* getConcerts returns for the same filter, limit and offset.
C3_TogglesOffIsStoreQuery ==
    (pc = "done" /\ ~options.includeTicketmaster /\ ~options.includeHistorical) =>
        result = getConcerts(options)

\* C4 (as claimed): a call with limit 0 returns the empty list.
C4_LimitZeroIsEmpty ==
    (pc = "done" /\ options.limit = 0) => result = <<>>

\* C5 (as claimed): the returned list has at most limit entries, limit being
\* 20 when the caller omits it.
C5_AtMostLimit ==
    pc = "done" =>
        Len(result) <= (IF options.limit = Undefined THEN DefaultLimit
                        ELSE options.limit)

\* C6: when the offset is at least the length of the filtered merged list,
\* the call returns the empty list.
C6_OffsetBeyondIsEmpty ==
    (pc = "done" /\ Offset >= Len(filteredConcerts)) => result = <<>>

C6_Witness ==
    /\ pc = "done"
    /\ Offset = 1
    /\ Len(filteredConcerts) = 1
    /\ result = <<>>

\* C7 (as claimed): once a review was submitted for a provider-sourced id X,
\* which created the stored concert X, every later call whose result
\* contains X returns the stored record with its rating aggregates and not
\* the provider's copy.
C7_StoredRecordWins ==
    pc = "done" =>
        \A i \in 1..Len(result) :
            (result[i].id \in reviewedAtStart /\ result[i].id[1] # "") =>
                /\ FromStore(result[i])
                /\ result[i].averageRating # <<>>

C9_RepeatedCallIsIdentical ==
    (/\ pc = "done"
     /\ prev # <<>>
     /\ prev[1].options = options
     /\ prev[1].dbConcerts = dbConcerts
     /\ prev[1].tmResponse = tmResponse
     /\ prev[1].sfmResponse = sfmResponse) =>
        result = prev[1].result

\* C10: in a returned list the store's entries precede the live provider's,
\* which precede the historical provider's; within a source the entries
\* keep the order of that source's response; the list is an order-preserving
\* subsequence of the merged list.
C10_SourceOrder ==
    pc = "done" =>
        /\ \A i, j \in 1..Len(result) :
              i < j =>
                 /\ FromStore(result[j]) => FromStore(result[i])
                 /\ FromSetlistFm(result[i]) => FromSetlistFm(result[j])
        /\ IsSubsequence(SelectSeq(result, FromStore), dbConcerts)
        /\ IsSubsequence(IdsOf(SelectSeq(result, FromTicketmaster)), IdsOf(tmEvents))
        /\ IsSubsequence(IdsOf(SelectSeq(result, FromSetlistFm)), IdsOf(sfmEvents))
        /\ IsSubsequence(result, combinedConcerts)

C10_Witness ==
    /\ pc = "done"
    /\ Len(SelectSeq(result, FromStore)) >= 2
    /\ Len(SelectSeq(result, FromTicketmaster)) >= 2
    /\ Len(SelectSeq(result, FromSetlistFm)) >= 2

\* C11: for a call with a search term and/or a genre, every entry of the
\* returned list, whatever its source, has the term as a case-insensitive
\* substring of its artist, venue or city, and has the genre as a
\* case-insensitive substring of its genre.
C11_ResultMatchesFilters ==
    pc = "done" =>
        \A i \in 1..Len(result) :
            /\ options.search # <<>> =>
                  \/ ilike(result[i].artist, options.search)
                  \/ ilike(result[i].venue, options.search)
                  \/ ilike(result[i].city, options.search)
            /\ options.genre # <<>> => ilike(result[i].genre, options.genre)

C11_Witness ==
    /\ pc = "done"
    /\ options.search # <<>>
    /\ options.genre # <<>>
    /\ Len(filteredConcerts) < Len(combinedConcerts)
    /\ \E i \in 1..Len(result) :
          ~FromStore(result[i]) /\ result[i].genre # options.genre

\* C12 (as claimed): the genre filter does not depend on the source: in a
\* call with a genre filter (and no search, limit or offset), a stored
\* concert and a provider record of this call with the same genre value are
\* either both in the filtered merged list or both dropped from it.
C12_GenreFilterSourceIndependent ==
    (/\ pc = "done"
     /\ options.genre # <<>>
     /\ options.search = <<>>
     /\ options.limit = Undefined
     /\ options.offset = Undefined) =>
        \A i \in 1..Len(concerts) :
            \A p \in { AnsweredTm[k] : k \in 1..Len(AnsweredTm) }
                     \cup { AnsweredSfm[k] : k \in 1..Len(AnsweredSfm) } :
                (p.id \notin Ids(concerts) /\ p.genre = concerts[i].genre) =>
                    (concerts[i].id \in Ids(filteredConcerts)
                        <=> p.id \in Ids(filteredConcerts))

\* C13 (as claimed): in every returned list an entry's id starts with "tm_"
\* exactly when the live provider produced the entry, with "setlistfm_"
\* exactly when the historical provider produced it, and has neither prefix
\* exactly when it was read from the store.
C13_PrefixIdentifiesOrigin ==
    pc = "done" =>
        \A i \in 1..Len(result) :
            /\ result[i].id[1] = "tm_" <=> FromTicketmaster(result[i])
            /\ result[i].id[1] = "setlistfm_" <=> FromSetlistFm(result[i])
            /\ result[i].id[1] \notin {"tm_", "setlistfm_"} <=> FromStore(result[i])

\* C13 (amended): in every returned list an entry the live provider produced
\* has an id that starts with "tm_", an entry the historical provider
\* produced has one that starts with "setlistfm_", and an entry with neither
\* prefix was read from the store; an entry read from the store carries a
\* provider prefix only when its row was written by the concert upsert of a
\* review submission, which keeps the id the client sent.
C13_ProviderEntriesCarryPrefix ==
    pc = "done" =>
        \A i \in 1..Len(result) :
            /\ FromTicketmaster(result[i]) => result[i].id[1] = "tm_"
            /\ FromSetlistFm(result[i]) => result[i].id[1] = "setlistfm_"
            /\ result[i].id[1] \notin {"tm_", "setlistfm_"} => FromStore(result[i])
            /\ (FromStore(result[i]) /\ result[i].id[1] \in {"tm_", "setlistfm_"}) =>
                  result[i].id \in { p.id : p \in ConcertPayloads }

C13_Witness ==
    /\ pc = "done"
    /\ \E i \in 1..Len(result) :
          FromStore(result[i]) /\ result[i].id[1] \in {"tm_", "setlistfm_"}
    /\ \E i \in 1..Len(result) : FromStore(result[i]) /\ result[i].id[1] = ""
    /\ \E i \in 1..Len(result) : FromTicketmaster(result[i])
    /\ \E i \in 1..Len(result) : FromSetlistFm(result[i])

\* C14 (as claimed): the live provider client's search answers a 404
\* response with the empty list and raises nothing; it raises an error to
\* its caller on every other response that is not 2xx and on a network
\* failure.
C14_NotFoundIsZeroResults ==
    tmResponse.status # Undefined =>
        /\ tmThrew <=> tmResponse.status \notin (200..299) \cup {404}
        /\ tmResponse.status = 404 => tmEvents = <<>>

\* C15: when a provider's key is absent, the provider client's search
\* returns the empty list, sends no HTTP request and raises no error, and
\* the call returns what it returns with that provider disabled: the store
\* records and the other provider's records, merged, filtered and paginated.
C15_NoCredentialsNoRequest ==
    pc = "done" =>
        /\ (options.includeTicketmaster /\ ~consumerKey) =>
              /\ Len(tmCalls) = 1
              /\ tmRequests = <<>>
              /\ tmResponse = NoTmResponse
              /\ ~tmThrew
              /\ tmEvents = <<>>
              /\ result = Paginate(PostFilter(MergedAnswer, options), options)
        /\ (options.includeHistorical /\ ~apiKey) =>
              /\ Len(sfmCalls) = 1
              /\ sfmRequests = <<>>
              /\ sfmResponse = NoSfmResponse
              /\ ~sfmThrew
              /\ sfmEvents = <<>>
              /\ result = Paginate(PostFilter(MergedAnswer, options), options)

C15_Witness ==
    /\ pc = "done"
    /\ options.includeTicketmaster
    /\ ~consumerKey
    /\ options.includeHistorical
    /\ apiKey
    /\ \E i \in 1..Len(result) : FromStore(result[i])
    /\ \E i \in 1..Len(result) : FromSetlistFm(result[i])

\* decimal numerals: the one- or two-digit text of n, and its two-digit text
Numerals == <<"0", "1", "2", "3", "4", "5", "6", "7", "8", "9">>
TwoDigits(n) == <<Numerals[(n \div 10) + 1], Numerals[(n % 10) + 1]>>
Written(n) == IF n < 10 THEN {<<Numerals[n + 1]>>, TwoDigits(n)} ELSE {TwoDigits(n)}
YearTexts == { <<"2", "0", "2", "4">>, <<"1", "9", "9", "9">> }

\* every well-formed day-month-year text, with the canonical date it denotes
DayMonthYearForms ==
    UNION { { [text |-> d \o <<"-">> \o m \o <<"-">> \o y,
               canonical |-> y \o <<"-">> \o TwoDigits(month) \o <<"-">> \o TwoDigits(day)] :
              d \in Written(day), m \in Written(month), y \in YearTexts } :
            day \in 1..31, month \in 1..12 }

WellFormedDates == { f.text : f \in DayMonthYearForms }

\* C16: a historical-provider date of the form day-month-year, day and month
\* written with one or two digits, is transformed into year-month-day with
\* month and day zero-padded to two digits.
C16_DayMonthYearBecomesIso ==
    pc = "done" =>
        /\ Len(sfmEvents) = Len(sfmResponse.setlist)
        /\ \A i \in 1..Len(sfmEvents) :
              \A f \in DayMonthYearForms :
                  sfmResponse.setlist[i].eventDate = f.text =>
                      sfmEvents[i].date = f.canonical

C16_Witness ==
    /\ pc = "done"
    /\ \E i \in 1..Len(sfmEvents) :
          /\ sfmResponse.setlist[i].eventDate = <<"5", "-", "3", "-", "2", "0", "2", "4">>
          /\ sfmEvents[i].date = <<"2", "0", "2", "4", "-", "0", "3", "-", "0", "5">>
          /\ \E j \in 1..Len(result) : result[j].date = sfmEvents[i].date

\* C17 (as claimed): a historical-provider date that is not a well-formed
\* day-month-year text is passed through unchanged as the canonical date,
\* and the transform of that record and of the rest of the response
\* completes.
C17_MalformedDatePassesThrough ==
    pc = "done" =>
        /\ Len(sfmEvents) = Len(sfmResponse.setlist)
        /\ \A i \in 1..Len(sfmEvents) :
              sfmResponse.setlist[i].eventDate \notin WellFormedDates =>
                  sfmEvents[i].date = sfmResponse.setlist[i].eventDate

\* the list L of C18: every stored concert that matches the filter, in store
\* order, then the deduplicated provider records of this call, post-filtered
StoreMatching ==
    LET rows == SelectSeq(concerts, LAMBDA c : MatchesConditions(c, options))
    IN [i \in 1..Len(rows) |-> ConcertWithRating(rows[i])]

FlatList ==
    LET withTm == StoreMatching \o FirstOccurrences(AnsweredTm, Ids(StoreMatching))
    IN PostFilter(withTm \o FirstOccurrences(AnsweredSfm, Ids(withTm)), options)

\* C18 (as claimed): for a positive limit, the returned list is the elements
\* at positions [offset, offset + limit) of L: the offset is applied once, as
\* a single window over L.
C18_SingleFlatWindow ==
    (pc = "done" /\ options.limit > 0) =>
        result = slice(FlatList, Offset, Offset + options.limit)

\* the page floor(offset / limit) of C19, limit defaulting to 20 and offset
\* to 0 (the quotient is defined for a limit that is not 0)
PageIndex ==
    (IF options.offset = Undefined THEN 0 ELSE options.offset)
        \div (IF options.limit = Undefined THEN DefaultLimit ELSE options.limit)

\* C19: during one call an enabled provider is called exactly once and a
\* disabled provider is never called; the live provider is asked for page
\* floor(offset / limit), counted from 0, and the historical provider for
\* page floor(offset / limit) + 1, counted from 1.
C19_OneCallPerProviderWithPage ==
    /\ Len(tmCalls) <= 1 /\ Len(tmRequests) <= Len(tmCalls)
    /\ Len(sfmCalls) <= 1 /\ Len(sfmRequests) <= Len(sfmCalls)
    /\ pc = "done" =>
          /\ Len(tmCalls) = (IF options.includeTicketmaster THEN 1 ELSE 0)
          /\ Len(sfmCalls) = (IF options.includeHistorical THEN 1 ELSE 0)
          /\ Len(tmRequests) = Len(tmCalls)
          /\ Len(sfmRequests) = Len(sfmCalls)
    /\ options.limit # 0 =>
          /\ \A i \in 1..Len(tmCalls) : tmCalls[i].page = PageIndex
          /\ \A i \in 1..Len(tmRequests) : tmRequests[i].page = PageIndex
          /\ \A i \in 1..Len(sfmCalls) : sfmCalls[i].p = PageIndex + 1
          /\ \A i \in 1..Len(sfmRequests) : sfmRequests[i].p = <<PageIndex + 1>>

C19_Witness ==
    /\ pc = "done"
    /\ options.limit = 1
    /\ options.offset = 1
    /\ Len(tmRequests) = 1
    /\ tmRequests[1].page = 1
    /\ Len(sfmRequests) = 1
    /\ sfmRequests[1].p = <<2>>

\* a provider fetch of the call is in flight: requested and not yet answered
TmInFlight == tmRequests # <<>> /\ tmResponse = NoTmResponse
SfmInFlight == sfmRequests # <<>> /\ sfmResponse = NoSfmResponse

\* C20 (as claimed): with both toggles on, the historical fetch is issued
\* without waiting for the live fetch to complete: while the live fetch is
\* in flight, the historical fetch has been issued and is in flight as well.
C20_FetchesRunConcurrently ==
    (TmInFlight /\ options.includeHistorical) => SfmInFlight

\* the two fetches of one call are never in flight together
NeverBothInFlight == ~(TmInFlight /\ SfmInFlight)

\* C21: a step of a query (its start, a provider answer, its return) never
\* writes to the store: the stored concerts and reviews are after the step
\* what they were before it, whatever the toggles, the provider responses
\* and the failures; no provider record is persisted by querying.
C21_QueryNeverWrites ==
    [][(pc # "idle" \/ pc' # "idle") =>
          (concerts' = concerts /\ reviews' = reviews)]_vars

C21_Witness ==
    /\ pc = "done"
    /\ concerts # <<>>
    /\ reviews # <<>>
    /\ TmFailed
    /\ \E i \in 1..Len(result) :
          FromSetlistFm(result[i]) /\ result[i].id \notin Ids(concerts)

\* the review requests that have been answered
Answered == { c \in Connections : reviewReqs[c].pc = "done" }

\* C22: a review submission that carries concert data with id X leaves a
\* stored concert with exactly id X behind (created from the data when none
\* existed); a stored concert is never modified by a submission; and the
\* store holds at most one concert per id.
C22_UpsertCreatesOnce ==
    /\ [](/\ \A i, j \in 1..Len(concerts) :
               concerts[i].id = concerts[j].id => i = j
          /\ \A c \in Answered :
               (reviewReqs[c].userId # NoUser /\ reviewReqs[c].concert # <<>>) =>
                   reviewReqs[c].concert[1].id \in Ids(concerts)
          /\ \A c \in Answered :
               reviewReqs[c].inserted =>
                   \E i \in 1..Len(concerts) :
                       /\ concerts[i].id = reviewReqs[c].concert[1].id
                       /\ concerts[i].artist = reviewReqs[c].concert[1].artist)
    /\ [][\A i \in 1..Len(concerts) :
              /\ Len(concerts') >= Len(concerts)
              /\ concerts'[i + Len(concerts') - Len(concerts)] = concerts[i]]_vars

C22_Witness ==
    \E c, d \in Answered :
        /\ reviewReqs[c].inserted
        /\ reviewReqs[d].existingConcert # <<>>
        /\ reviewReqs[d].concert[1].id = reviewReqs[c].concert[1].id
        /\ reviewReqs[d].concert[1].artist # reviewReqs[c].concert[1].artist
        /\ reviewReqs[d].status = 201

\* what the second call returns when it runs alone over the store records
\* and the provider responses it was given
OtherAlone ==
    LET tm == IF other.tmResponse.status \in 200..299
              THEN [i \in 1..Len(other.tmResponse.events) |->
                       WithDefaultRatings(transformEvent(other.tmResponse.events[i]),
                                          other.clock)]
              ELSE <<>>
        sfm == IF other.sfmResponse.status \in 200..299
               THEN [i \in 1..Len(other.sfmResponse.setlist) |->
                        WithDefaultRatings(transformSetlist(other.sfmResponse.setlist[i]),
                                           other.clock)]
               ELSE <<>>
        withTm == other.dbConcerts \o FirstOccurrences(tm, Ids(other.dbConcerts))
        merged == withTm \o FirstOccurrences(sfm, Ids(withTm))
    IN Paginate(PostFilter(merged, other.options), other.options)

\* C23: two calls that run concurrently do not affect each other: under
\* every interleaving each call returns the list it returns when it runs
\* alone over its store records and provider responses.
C23_QueriesIndependent ==
    /\ pc = "done" => result = Paginate(PostFilter(MergedAnswer, options), options)
    /\ other.pc = "done" => other.result = OtherAlone

C23_Witness ==
    /\ pc = "done"
    /\ other.pc = "done"
    /\ other.options = options
    /\ other.dbConcerts = dbConcerts
    /\ tmResponse.status = 200
    /\ other.tmResponse.status = 500
    /\ \E i \in 1..Len(result) : FromTicketmaster(result[i])
    /\ \E i \in 1..Len(other.result) : FromSetlistFm(other.result[i])
    /\ ~ \E i \in 1..Len(other.result) : FromTicketmaster(other.result[i])

Area(img) == img.width * img.height
Tagged16x9(images) == { i \in 1..Len(images) : images[i].ratio = "16_9" }

\* the url the selection rule allows for one list of images
Preferred(images) ==
    IF Tagged16x9(images) # {}
    THEN { images[i].url : i \in Tagged16x9(images) }
    ELSE { images[i].url : i \in { j \in 1..Len(images) :
                                     \A k \in 1..Len(images) :
                                        Area(images[j]) >= Area(images[k]) } }

\* the live events of the response an entry of the result was built from
EventsOf(entry) ==
    { tmResponse.events[k] : k \in { j \in 1..Len(tmResponse.events) :
                                       entry.id = <<"tm_", tmResponse.events[j].id>> } }

\* C24: the imageUrl of a live event is the url of a 16:9 image of the event
\* when it has one, otherwise the url of a largest image of the event; the
\* attraction's images are used only when the event has none, and the
\* imageUrl is absent when there are no images at all.
C24_BestImageSelected ==
    pc = "done" =>
       \A i \in 1..Len(result) :
          FromTicketmaster(result[i]) =>
             \A e \in EventsOf(result[i]) :
                IF e.images # <<>>
                THEN result[i].imageUrl \in Preferred(e.images)
                ELSE IF e.attractionImages # <<>>
                     THEN result[i].imageUrl \in Preferred(e.attractionImages)
                     ELSE result[i].imageUrl = <<>>

C24_Witness ==
    /\ pc = "done"
    /\ \E i \in 1..Len(result) :
          /\ FromTicketmaster(result[i])
          /\ result[i].imageUrl = <<"d">>
          /\ \E e \in EventsOf(result[i]) :
                /\ e.images = <<ImageA, ImageD, ImageC>>
                /\ e.attractionImages = <<ImageC, ImageE>>
    /\ \E i \in 1..Len(result) :
          /\ FromTicketmaster(result[i])
          /\ result[i].imageUrl = <<"c">>
          /\ \E e \in EventsOf(result[i]) : e.images = <<>>

\* C25: when a call carries startDate and/or endDate, every entry of its
\* result, from the store or from a provider, has a date within the bounds.
C25_ResultWithinBounds ==
    pc = "done" =>
       \A i \in 1..Len(result) :
          /\ options.startDate # <<>> =>
                DateValue(options.startDate) <= DateValue(result[i].date)
          /\ options.endDate # <<>> =>
                DateValue(result[i].date) <= DateValue(options.endDate)

\* two answered submissions of distinct authenticated users, each with a
\* valid body and the concert object of the same id
FirstReviewsOf(c, d) ==
    /\ c # d
    /\ reviewReqs[c].userId \in Users
    /\ reviewReqs[d].userId \in Users
    /\ reviewReqs[c].userId # reviewReqs[d].userId
    /\ reviewReqs[c].valid /\ reviewReqs[d].valid
    /\ reviewReqs[c].concert # <<>> /\ reviewReqs[d].concert # <<>>
    /\ reviewReqs[c].concertId = reviewReqs[d].concertId

\* C26: when two authenticated users submit their first reviews of the same
\* provider concert that is not yet in the store, then under every
\* interleaving both requests answer 201, both reviews exist, and exactly
\* one concert record with the id exists.
C26_ConcurrentFirstReviewsBothCreated ==
    \A c, d \in Answered :
       FirstReviewsOf(c, d) =>
          /\ reviewReqs[c].status = 201
          /\ reviewReqs[d].status = 201
          /\ \A u \in {reviewReqs[c].userId, reviewReqs[d].userId} :
                \E k \in 1..Len(reviews) :
                   reviews[k].userId = u /\ reviews[k].concertId = reviewReqs[c].concertId
          /\ Len(getConcert(reviewReqs[c].concertId)) = 1

\* C27: a review submission answered 400 (the body fails validation) or 401
\* (no authenticated user) has created no concert record and no review.
C27_RejectedReviewLeavesStore ==
    \A c \in Answered :
       reviewReqs[c].status \in {400, 401} =>
          /\ ~reviewReqs[c].inserted
          /\ reviewReqs[c].userId \in Users =>
                \A k \in 1..Len(reviews) :
                   reviews[k].concertId = reviewReqs[c].concertId =>
                      \E d \in Answered \ {c} :
                         /\ reviewReqs[d].status = 201
                         /\ reviewReqs[d].userId = reviews[k].userId
                         /\ reviewReqs[d].concertId = reviews[k].concertId

LikesOf(reviewId) == { l \in reviewLikes : l.reviewId = reviewId }

\* C28: whenever no likeReview or unlikeReview call is in progress, the
\* likes counter of every review equals the number of review_likes rows of
\* the review, whatever calls ran before and however they interleaved.
C28_LikesCounterMatchesRows ==
    (\A c \in Connections : likeOps[c].pending = {}) =>
       \A k \in 1..Len(reviews) :
          reviews[k].likes = Cardinality(LikesOf(reviews[k].id))

\* no row of the next state references the user or one of the user's reviews
GoneAfterwards(id) ==
    /\ id \notin users'
    /\ \A k \in 1..Len(reviews') : reviews'[k].userId # id
    /\ \A l \in reviewLikes' : l.userId # id /\ l.reviewId \notin ReviewIdsOf(id)
    /\ \A c \in reviewComments' : c.userId # id /\ c.reviewId \notin ReviewIdsOf(id)
    /\ \A w \in concertWishlists' : w.userId # id
    /\ \A f \in userFollows' : f.followerId # id /\ f.followingId # id

\* C29: deleteUser is all-or-nothing: when it returns true (answer 204) the
\* user row and every review, like, comment, wishlist item and follow that
\* references the user, other users' likes and comments on the user's
\* reviews included, are gone; when it returns false (answer 500) no row of
\* these tables has been removed.
C29_DeleteUserAllOrNothing ==
    [][(response' # response /\ response'.route = "DELETE /api/users/me") =>
          /\ response'.status = 204 =>
                response'.userId \in users /\ GoneAfterwards(response'.userId)
          /\ response'.status # 204 =>
                reviews' = reviews /\ socialVars' = socialVars]_vars

C29_Witness ==
    /\ response.route = "DELETE /api/users/me"
    /\ response.status = 500
    /\ response.userId \in users
    /\ \E k \in 1..Len(reviews) :
          /\ reviews[k].userId = response.userId
          /\ \E l \in reviewLikes :
                l.reviewId = reviews[k].id /\ l.userId # response.userId
          /\ \E c \in reviewComments :
                c.reviewId = reviews[k].id /\ c.userId # response.userId
    /\ \E w \in concertWishlists : w.userId = response.userId
    /\ \E f \in userFollows : f.followingId = response.userId

ReviewRoutes == {"PUT /api/reviews/:id", "DELETE /api/reviews/:id"}

\* the step changes or removes exactly the review the answered request
\* names, and the caller is the userId of that review
ByAuthor ==
    /\ response'.route \in ReviewRoutes
    /\ response'.status \in {200, 204}
    /\ \E k \in 1..Len(reviews) :
          /\ reviews[k].id = response'.id
          /\ reviews[k].userId = response'.userId
    /\ \A k \in 1..Len(reviews) :
          reviews[k].id # response'.id =>
             \E j \in 1..Len(reviews') : reviews'[j] = reviews[k]

\* C30: a review is modified or deleted only by its author: a PUT or DELETE
\* of /api/reviews/:id by a user other than the review's userId answers 403
\* and leaves the review unchanged, and one for a review that does not exist
\* answers 404 and changes nothing.
C30_OnlyAuthorChangesReview ==
    /\ [][(\E k \in 1..Len(reviews) :
              \A j \in 1..Len(reviews') : reviews'[j] # reviews[k]) => ByAuthor]_vars
    /\ [][(response' # response /\ response'.route \in ReviewRoutes) =>
             /\ getReview(response'.id) = <<>> => response'.status = 404
             /\ (getReview(response'.id) # <<>>
                 /\ getReview(response'.id)[1].userId # response'.userId) =>
                   response'.status = 403
             /\ response'.status \in {403, 404} =>
                   reviews' = reviews /\ socialVars' = socialVars]_vars

C30_Witness ==
    /\ response.route = "PUT /api/reviews/:id"
    /\ response.status = 403
    /\ response.userId \in Users
    /\ \E k \in 1..Len(reviews) :
          /\ reviews[k].id = response.id
          /\ reviews[k].userId # response.userId
          /\ reviews[k].overallRating = RatingsOf(reviews[k].userId).overallRating

====
